---- MODULE Spec2Model ----
(***************************************************************************)
(* JoFotara e-invoicing integration: identifier issuer, synchronous        *)
(* submission phase and asynchronous submission worker.                    *)
(*                                                                         *)
(* Database writes made by frappe.db.sql / frappe.db.set_value / insert    *)
(* are buffered in the caller's transaction (txn) and become visible to    *)
(* other callers at frappe.db.commit(); a job that dies with an exception  *)
(* loses its uncommitted writes.                                           *)
(***************************************************************************)
EXTENDS Integers, Sequences, FiniteSets, TLC

VARIABLES
    company,        \* tabCompany rows (committed)
    invoice,        \* tabSales Invoice rows (committed)
    customer,       \* tabCustomer rows
    logs,           \* tabJoFotara Log rows (committed)
    lock,           \* holder of the FOR UPDATE row lock of each company
    today,          \* business date in Asia/Amman
    pc,             \* position of each submitInvoice call / its worker job
    target,         \* invoice_name of each call
    snapshot,       \* the invoice document loaded by the call
    identifiers,    \* identifiers returned by generate_identifiers
    txn,            \* uncommitted writes of each call's transaction
    local,          \* worker locals: xml_content, result, submission_status
    notifications,  \* realtime events published
    history         \* history: what each call allocated and how it ended

vars == <<company, invoice, customer, logs, lock, today, pc, target, snapshot,
          identifiers, txn, local, notifications, history>>

-----------------------------------------------------------------------------
(* Bounds *)

MaxStarter == 1
MaxDate == 2
MaxErrors == 2
MaxNewStarter == 3

-----------------------------------------------------------------------------
(* Universe *)

Companies == {"CoA"}
Invoices == {"INV1", "INV2", "RET1", "RET2", "RET3", "DRAFT"}
Returns == {"RET1", "RET2", "RET3"}
Customers == {"CashCustomer", "CreditCustomer"}
ProcOrder == <<"p1", "p2">>
Procs == {ProcOrder[k] : k \in 1..Len(ProcOrder)}
None == "none"

HighValueThreshold == 10000

\* width of the daily sequence in a document id
SeqWidth == 5

EmptyId == <<>>

NoIdentifiers == [jofotara_id |-> EmptyId, jofotara_uuid |-> "", jofotara_icv |-> 0]

NoDoc ==
    [custom_jofotara_id |-> EmptyId, custom_jofotara_uuid |-> "",
     custom_jofotara_icv |-> 0, custom_jofotara_status |-> ""]

NoCounters ==
    [custom_latest_sent_icv |-> 0, custom_last_daily_seq_date |-> 0,
     custom_last_daily_seq_no |-> 0]

NoInvoiceValues ==
    [custom_jofotara_id |-> EmptyId, custom_jofotara_uuid |-> "",
     custom_jofotara_icv |-> 0, custom_jofotara_status |-> "",
     custom_jofotara_qr |-> ""]

EmptyTxn ==
    [company_written |-> FALSE, counters |-> NoCounters,
     wrote |-> {}, vals |-> NoInvoiceValues, logs |-> {}]

NoResult == [success |-> FALSE, status |-> "", errors |-> <<>>, qr |-> "",
             error |-> <<>>, posted |-> FALSE]

NoLocal == [xml_content |-> FALSE, result |-> NoResult, submission_status |-> ""]

NoHistory == [allocated |-> 0, outcome |-> "", posted |-> FALSE]

-----------------------------------------------------------------------------
(* Helpers *)

Max(a, b) == IF a >= b THEN a ELSE b

\* the amount taken with its sign
AbsSigned(n) == n

Abs(n) == IF n < 0 THEN -n ELSE n

\* "\n".join(items)
RECURSIVE Join(_)
Join(items) ==
    IF Len(items) = 0 THEN <<>>
    ELSE IF Len(items) = 1 THEN <<items[1]>>
    ELSE <<items[1], "\n">> \o Join(Tail(items))

\* frappe.db.set_value / UPDATE applied at commit: only the written columns
ApplyWrites(doc, t) ==
    [f \in DOMAIN doc |->
        IF f \in t.wrote THEN t.vals[f] ELSE doc[f]]

SetValue(t, values) ==
    [t EXCEPT !.wrote = @ \cup DOMAIN values,
              !.vals = [f \in DOMAIN @ |->
                           IF f \in DOMAIN values THEN values[f] ELSE @[f]]]

CommitInvoice(p, t) ==
    [invoice EXCEPT ![target[p]] = ApplyWrites(@, t)]

-----------------------------------------------------------------------------
(* Initial state: one company with its configuration, invoices that have   *)
(* never been sent (two sales invoices, a draft, a return against INV1, a  *)
(* return without a reference, a return against a deleted invoice), nobody *)
(* calling.                                                                *)

\* invoice i of company c as it is before it is ever sent
NewInvoice(i, c) ==
    [company |-> c,
     docstatus |-> IF i = "DRAFT" THEN 0 ELSE 1,
     is_return |-> (i \in Returns),
     return_against |-> IF i = "RET1" THEN "INV1"
                        ELSE IF i = "RET3" THEN "GONE" ELSE "",
     custom_jofotara_payment_type |-> IF i = "INV2" THEN "Auto" ELSE "Cash",
     is_pos |-> (i # "INV2"),
     grand_total |-> IF i = "INV2" THEN 20000
                     ELSE IF i \in Returns THEN -100 ELSE 100,
     customer |-> IF i = "INV2" THEN "CreditCustomer" ELSE "CashCustomer",
     custom_jofotara_id |-> EmptyId,
     custom_jofotara_uuid |-> "",
     custom_jofotara_icv |-> 0,
     custom_jofotara_status |-> "",
     custom_jofotara_qr |-> ""]

Init ==
    /\ company \in [Companies ->
          [abbr : {"CA"},
           custom_enable_jofotara : BOOLEAN,
           custom_jofotara_client_id : BOOLEAN,
           custom_jofotara_secret_key : BOOLEAN,
           custom_jofotara_save_logs : BOOLEAN,
           custom_starter_icv : {0, MaxStarter},
           custom_latest_sent_icv : {0},
           custom_last_daily_seq_date : {0},
           custom_last_daily_seq_no : {0}]]
    \* a company that never enabled the integration has configured nothing
    /\ \A c \in Companies :
         ~company[c].custom_enable_jofotara =>
            /\ ~company[c].custom_jofotara_client_id
            /\ ~company[c].custom_jofotara_secret_key
            /\ ~company[c].custom_jofotara_save_logs
            /\ company[c].custom_starter_icv = 0
    /\ invoice = [i \in Invoices |-> NewInvoice(i, "CoA")]
    /\ customer = [c \in Customers |-> [tax_id |-> FALSE]]
    /\ logs = {}
    /\ lock = [c \in Companies |-> None]
    /\ today = 1
    /\ pc = [p \in Procs |-> "idle"]
    /\ target = [p \in Procs |-> None]
    /\ snapshot = [p \in Procs |-> NoDoc]
    /\ identifiers = [p \in Procs |-> NoIdentifiers]
    /\ txn = [p \in Procs |-> EmptyTxn]
    /\ local = [p \in Procs |-> NoLocal]
    /\ notifications = {}
    /\ history = [p \in Procs |-> NoHistory]

-----------------------------------------------------------------------------
(* Synchronous phase: send_to_jofotara                                     *)

\* the validations with the "already sent" check left out
SyncRejectionResend(i) ==
    LET doc == invoice[i]
        comp == company[doc.company]
    IN  IF ~comp.custom_enable_jofotara THEN "not enabled"
        ELSE IF doc.docstatus # 1 THEN "not submitted"
        ELSE IF doc.is_return THEN
            IF doc.return_against = "" THEN "no return against"
            ELSE IF doc.return_against \notin DOMAIN invoice THEN "original not found"
            ELSE IF \/ invoice[doc.return_against].custom_jofotara_status # "Success"
                    \/ invoice[doc.return_against].custom_jofotara_uuid = ""
                 THEN "original not sent"
            ELSE ""
        ELSE ""

\* the validations rejecting every invoice that was sent before
SyncRejectionNoRetry(i) ==
    LET doc == invoice[i]
        comp == company[doc.company]
    IN  IF ~comp.custom_enable_jofotara THEN "not enabled"
        ELSE IF doc.docstatus # 1 THEN "not submitted"
        ELSE IF doc.custom_jofotara_status \in {"Success", "Error"} THEN "already sent"
        ELSE IF doc.is_return THEN
            IF doc.return_against = "" THEN "no return against"
            ELSE IF doc.return_against \notin DOMAIN invoice THEN "original not found"
            ELSE IF \/ invoice[doc.return_against].custom_jofotara_status # "Success"
                    \/ invoice[doc.return_against].custom_jofotara_uuid = ""
                 THEN "original not sent"
            ELSE ""
        ELSE ""

\* the validations looking at the UUID of a return's original only
SyncRejectionUuidOnly(i) ==
    LET doc == invoice[i]
        comp == company[doc.company]
    IN  IF ~comp.custom_enable_jofotara THEN "not enabled"
        ELSE IF doc.docstatus # 1 THEN "not submitted"
        ELSE IF doc.custom_jofotara_status = "Success" THEN "already sent"
        ELSE IF doc.is_return THEN
            IF doc.return_against = "" THEN "no return against"
            ELSE IF doc.return_against \notin DOMAIN invoice THEN "original not found"
            ELSE IF invoice[doc.return_against].custom_jofotara_uuid = ""
                 THEN "original not sent"
            ELSE ""
        ELSE ""

\* the validations looking at the status of a return's original only
SyncRejectionStatusOnly(i) ==
    LET doc == invoice[i]
        comp == company[doc.company]
    IN  IF ~comp.custom_enable_jofotara THEN "not enabled"
        ELSE IF doc.docstatus # 1 THEN "not submitted"
        ELSE IF doc.custom_jofotara_status = "Success" THEN "already sent"
        ELSE IF doc.is_return THEN
            IF doc.return_against = "" THEN "no return against"
            ELSE IF doc.return_against \notin DOMAIN invoice THEN "original not found"
            ELSE IF invoice[doc.return_against].custom_jofotara_status # "Success"
                 THEN "original not sent"
            ELSE ""
        ELSE ""

\* the validations of send_to_jofotara, in order; "" when all pass
SyncRejection(i) ==
    LET doc == invoice[i]
        comp == company[doc.company]
    IN  IF ~comp.custom_enable_jofotara THEN "not enabled"
        ELSE IF doc.docstatus # 1 THEN "not submitted"
        ELSE IF doc.custom_jofotara_status = "Success" THEN "already sent"
        ELSE IF doc.is_return THEN
            IF doc.return_against = "" THEN "no return against"
            ELSE IF doc.return_against \notin DOMAIN invoice THEN "original not found"
            ELSE IF \/ invoice[doc.return_against].custom_jofotara_status # "Success"
                    \/ invoice[doc.return_against].custom_jofotara_uuid = ""
                 THEN "original not sent"
            ELSE ""
        ELSE ""

\* frappe.get_doc("Sales Invoice", invoice_name): the fields read later
LoadedDoc(i) ==
    [custom_jofotara_id |-> invoice[i].custom_jofotara_id,
     custom_jofotara_uuid |-> invoice[i].custom_jofotara_uuid,
     custom_jofotara_icv |-> invoice[i].custom_jofotara_icv,
     custom_jofotara_status |-> invoice[i].custom_jofotara_status]

\* calls start in the order of ProcOrder (the calls are interchangeable)
MayStart(p) ==
    \A k \in 1..Len(ProcOrder) :
        ProcOrder[k] = p => \A j \in 1..(k-1) : pc[ProcOrder[j]] # "idle"

\* send_to_jofotara, lines 69-108: load the invoice and validate
Submit(p, i) ==
    /\ pc[p] = "idle"
    /\ MayStart(p)
    /\ target' = [target EXCEPT ![p] = i]
    /\ IF SyncRejection(i) # ""
       THEN /\ pc' = [pc EXCEPT ![p] = "rejected"]
            /\ UNCHANGED snapshot
       ELSE /\ pc' = [pc EXCEPT ![p] = "validated"]
            /\ snapshot' = [snapshot EXCEPT ![p] = LoadedDoc(i)]
    /\ UNCHANGED <<company, invoice, customer, logs, lock, today, identifiers,
                   txn, local, notifications, history>>

\* the counter taken from the starter value alone
NewIcvFromStarter(row) == row.custom_starter_icv + 1

\* new_icv = max(starter_icv, latest_icv) + 1
NewIcv(row) == Max(row.custom_starter_icv, row.custom_latest_sent_icv) + 1

\* the daily sequence counted on without looking at the date
NewDailySeqNeverReset(row, current_date) == row.custom_last_daily_seq_no + 1

\* daily sequence, reset when the date changed
NewDailySeq(row, current_date) ==
    IF row.custom_last_daily_seq_date # 0 /\ row.custom_last_daily_seq_date = current_date
    THEN row.custom_last_daily_seq_no + 1
    ELSE 1

\* the decimal digits of a natural number
RECURSIVE Digits(_)
Digits(n) == IF n < 10 THEN <<n>> ELSE Digits(n \div 10) \o <<n % 10>>

\* f"{n:05d}": zero-padded to SeqWidth digits, longer numbers in full
ZeroPad(n) ==
    LET digs == Digits(n)
    IN  IF Len(digs) >= SeqWidth THEN digs
        ELSE [k \in 1..(SeqWidth - Len(digs)) |-> 0] \o digs

\* the document id without its date part
JofotaraIdNoDate(abbr, date_str, seq) == <<abbr, "-">> \o ZeroPad(seq)

\* f"{abbr}-{date_str}-{new_daily_seq:05d}"
JofotaraId(abbr, date_str, seq) == <<abbr, "-", date_str, "-">> \o ZeroPad(seq)

\* str(uuid.uuid4()): a value no other call draws
NewUuid(p) == p

\* a plain SELECT: the row is read without waiting for the lock
LockFreeUnlocked(c, p) == TRUE

\* a lock on the whole table: any locked row makes the caller wait
LockFreeTable(c, p) == \A d \in DOMAIN lock : lock[d] \in {None, p}

\* SELECT ... FOR UPDATE waits while another transaction holds the row lock
LockFree(c, p) == lock[c] \in {None, p}

\* the retry check left out: every call allocates
HasIdentifiersNever(doc) == FALSE

\* if invoice_doc.get("custom_jofotara_id")
HasIdentifiers(doc) == doc.custom_jofotara_id # EmptyId

\* the triple returned for a document that has identifiers
ExistingIdentifiers(doc) ==
    [jofotara_id |-> doc.custom_jofotara_id,
     jofotara_uuid |-> doc.custom_jofotara_uuid,
     jofotara_icv |-> doc.custom_jofotara_icv]

\* generate_identifiers, retry path (lines 62-68)
ReuseIdentifiers(p) ==
    /\ pc[p] = "validated"
    /\ HasIdentifiers(snapshot[p])
    /\ identifiers' = [identifiers EXCEPT ![p] = ExistingIdentifiers(snapshot[p])]
    /\ pc' = [pc EXCEPT ![p] = "allocated"]
    /\ UNCHANGED <<company, invoice, customer, logs, lock, today, target,
                   snapshot, txn, local, notifications, history>>

\* generate_identifiers, fresh allocation (lines 70-147)
Allocate(p) ==
    /\ pc[p] = "validated"
    /\ ~HasIdentifiers(snapshot[p])
    /\ LET c == invoice[target[p]].company
           row == company[c]
           new_icv == NewIcv(row)
           new_daily_seq == NewDailySeq(row, today)
           ids == [jofotara_id |-> JofotaraId(row.abbr, today, new_daily_seq),
                   jofotara_uuid |-> NewUuid(p),
                   jofotara_icv |-> new_icv]
       IN  /\ c \in DOMAIN company
           /\ LockFree(c, p)
           /\ lock' = [lock EXCEPT ![c] = p]
           /\ txn' = [txn EXCEPT ![p] =
                 SetValue([@ EXCEPT !.company_written = TRUE,
                                    !.counters =
                                       [custom_latest_sent_icv |-> new_icv,
                                        custom_last_daily_seq_date |-> today,
                                        custom_last_daily_seq_no |-> new_daily_seq]],
                          [custom_jofotara_id |-> ids.jofotara_id,
                           custom_jofotara_uuid |-> ids.jofotara_uuid,
                           custom_jofotara_icv |-> ids.jofotara_icv,
                           custom_jofotara_status |-> "Queued"])]
           /\ identifiers' = [identifiers EXCEPT ![p] = ids]
           /\ history' = [history EXCEPT ![p].allocated = new_icv]
    /\ pc' = [pc EXCEPT ![p] = "allocated"]
    /\ UNCHANGED <<company, invoice, customer, logs, today, target, snapshot,
                   local, notifications>>

\* frappe.db.commit() of a transaction: writes become visible, locks go
CommitCompany(p, t) ==
    LET c == invoice[target[p]].company
    IN  IF t.company_written
        THEN [company EXCEPT ![c] =
                [f \in DOMAIN @ |->
                    IF f \in DOMAIN t.counters THEN t.counters[f] ELSE @[f]]]
        ELSE company

\* a commit that leaves the row locks in place
ReleaseLocksNever(p) == lock

\* the row locks of the committing transaction are released
ReleaseLocks(p) == [c \in DOMAIN lock |-> IF lock[c] = p THEN None ELSE lock[c]]

\* send_to_jofotara, line 117
SyncCommit(p) ==
    /\ pc[p] = "allocated"
    /\ company' = CommitCompany(p, txn[p])
    /\ invoice' = CommitInvoice(p, txn[p])
    /\ lock' = ReleaseLocks(p)
    /\ txn' = [txn EXCEPT ![p] = EmptyTxn]
    /\ pc' = [pc EXCEPT ![p] = "committed"]
    /\ UNCHANGED <<customer, logs, today, target, snapshot, identifiers, local,
                   notifications, history>>

\* send_to_jofotara, lines 124-131: frappe.enqueue
Enqueue(p) ==
    /\ pc[p] = "committed"
    /\ pc' = [pc EXCEPT ![p] = "queued"]
    /\ UNCHANGED <<company, invoice, customer, logs, lock, today, target,
                   snapshot, identifiers, txn, local, notifications, history>>

\* the business date moves on
Tick ==
    /\ today < MaxDate
    /\ today' = today + 1
    /\ UNCHANGED <<company, invoice, customer, logs, lock, pc, target, snapshot,
                   identifiers, txn, local, notifications, history>>

-----------------------------------------------------------------------------
(* Asynchronous phase: process_jofotara_submission                         *)

\* _validate_before_submission raises
ValidationRaises(doc) ==
    LET payment_type == IF doc.custom_jofotara_payment_type = "" THEN "Cash"
                        ELSE doc.custom_jofotara_payment_type
        is_credit_invoice ==
            \/ payment_type = "Credit"
            \/ payment_type = "Auto" /\ ~doc.is_pos
    IN  \/ /\ doc.is_return
           /\ \/ doc.return_against = ""
              \/ doc.return_against \notin DOMAIN invoice
              \/ invoice[doc.return_against].custom_jofotara_uuid = ""
        \/ /\ is_credit_invoice \/ Abs(doc.grand_total) > HighValueThreshold
           /\ ~customer[doc.customer].tax_id

\* JoFotaraXMLGenerator._get_billing_reference raises
BillingReferenceRaises(doc) ==
    /\ doc.is_return
    /\ doc.return_against # ""
    /\ \/ doc.return_against \notin DOMAIN invoice
       \/ invoice[doc.return_against].custom_jofotara_uuid = ""

\* the ERRORS list of a response: each entry has an EINV_MESSAGE or not
Messages == {"EINV_MESSAGE"}

RECURSIVE SeqsUpTo(_, _)
SeqsUpTo(S, n) ==
    IF n = 0 THEN {<<>>}
    ELSE LET shorter == SeqsUpTo(S, n - 1)
         IN  shorter \cup {Append(q, x) : q \in {r \in shorter : Len(r) = n - 1}, x \in S}

\* e.get("EINV_MESSAGE", "Unknown Error")
MessageOf(e) == IF e = "missing" THEN "Unknown Error" ELSE e

\* error_msg = "\n".join([...]) behind its label
ValidationErrorText(errors) ==
    <<"JoFotara Validation Error: ">>
        \o Join([k \in 1..Len(errors) |-> MessageOf(errors[k])])

\* what requests.post and the classification of send_invoice can give; the
\* EINV_QR entry of an accepted response is a code, empty or missing
NetworkResults ==
    [success : {FALSE}, status : {""}, errors : {<<>>}, qr : {""},
     error : {<<"timed out">>, <<"failed to connect">>, <<"API returned status">>},
     posted : {TRUE}]
    \cup
    [success : {TRUE}, status : {"PASS", "WARNING", ""}, errors : {<<>>},
     qr : {"missing", "", "QR"}, error : {<<>>}, posted : {TRUE}]
    \cup
    [success : {TRUE}, status : {"ERROR"},
     errors : SeqsUpTo(Messages, MaxErrors) \cup {<<"missing">>},
     qr : {""}, error : {<<>>}, posted : {TRUE}]

\* send_invoice without its credentials check
SendInvoiceUnchecked(client_id, secret_key) == NetworkResults

\* JoFotaraAPIClient.send_invoice
SendInvoice(client_id, secret_key) ==
    IF ~client_id \/ ~secret_key
    THEN {[success |-> FALSE, status |-> "", errors |-> <<>>, qr |-> "",
           error |-> <<"credentials are not configured">>, posted |-> FALSE]}
    ELSE NetworkResults

\* only the HTTP outcome looked at, not the embedded business result
SubmissionStatusHttpOnly(result) ==
    IF result.success THEN "Success" ELSE "Error"

\* the status the worker derives from a result (cases A, B, C)
SubmissionStatus(result) ==
    IF result.success
    THEN IF result.status = "ERROR" THEN "Error" ELSE "Success"
    ELSE "Error"

\* the transport-layer classification of a result
Classify(result) ==
    IF ~result.success THEN "transport_error"
    ELSE IF result.status = "ERROR" THEN "business_error"
    ELSE "accepted"

\* the EINV_QR entry of the response stored as it came
QrCodeRaw(result) == result.qr

\* qr_code = response_data.get("EINV_QR") or ""
QrCode(result) == IF result.qr \in {"missing", ""} THEN "" ELSE result.qr

\* the columns set_value writes for a result
StatusWrite(result) ==
    IF SubmissionStatus(result) = "Success"
    THEN [custom_jofotara_status |-> "Success", custom_jofotara_qr |-> QrCode(result)]
    ELSE [custom_jofotara_status |-> "Error"]

\* the error text handed to _create_jofotara_log for a result
ErrorText(result) ==
    IF result.success
    THEN IF result.status = "ERROR" THEN ValidationErrorText(result.errors) ELSE <<>>
    ELSE result.error

\* _create_jofotara_log: the rows it inserts
CreateLog(p, comp, status, xml, error) ==
    IF ~comp.custom_jofotara_save_logs THEN {}
    ELSE {[attempt |-> p, invoice |-> target[p], status |-> status,
           generated_xml |-> xml, error_traceback |-> error]}

\* control passes to the except clause
Raise(p, xml, t, outcome, posted) ==
    /\ pc' = [pc EXCEPT ![p] = "except"]
    /\ local' = [local EXCEPT ![p].xml_content = xml]
    /\ txn' = [txn EXCEPT ![p] = t]
    /\ history' = [history EXCEPT ![p].outcome = outcome, ![p].posted = posted]
    /\ UNCHANGED <<company, invoice, customer, logs, lock, today, target,
                   snapshot, identifiers, notifications>>

\* process_jofotara_submission, lines 148-256: the try block up to its commit
WorkerRun(p) ==
    /\ pc[p] = "queued"
    /\ LET doc == invoice[target[p]]
           comp == company[doc.company]
       IN  \/ /\ ValidationRaises(doc)
              /\ Raise(p, FALSE, txn[p], "no_call", FALSE)
           \/ /\ ~ValidationRaises(doc)
              \* generator.generate() raises
              /\ Raise(p, FALSE, txn[p], "no_call", FALSE)
           \/ /\ ~ValidationRaises(doc)
              /\ ~BillingReferenceRaises(doc)
              \* company.get_password raises when no secret key is stored
              /\ ~comp.custom_jofotara_secret_key
              /\ Raise(p, TRUE, txn[p], "no_call", FALSE)
           \/ /\ ~ValidationRaises(doc)
              /\ ~BillingReferenceRaises(doc)
              /\ \E result \in SendInvoice(comp.custom_jofotara_client_id,
                                           comp.custom_jofotara_secret_key) :
                   LET status == SubmissionStatus(result)
                       written == SetValue(txn[p], StatusWrite(result))
                       rows == CreateLog(p, comp, status, TRUE, ErrorText(result))
                   IN  \* set_value raises
                       \/ Raise(p, TRUE, txn[p], Classify(result), result.posted)
                       \* log.insert raises
                       \/ /\ comp.custom_jofotara_save_logs
                          /\ Raise(p, TRUE, written, Classify(result), result.posted)
                       \* frappe.db.commit()
                       \/ /\ invoice' = CommitInvoice(p, written)
                          /\ logs' = logs \cup rows
                          /\ txn' = [txn EXCEPT ![p] = EmptyTxn]
                          /\ local' = [local EXCEPT ![p] =
                                [xml_content |-> TRUE, result |-> result,
                                 submission_status |-> status]]
                          /\ history' = [history EXCEPT ![p].outcome = Classify(result),
                                                        ![p].posted = result.posted]
                          /\ pc' = [pc EXCEPT ![p] = "notify"]
                          /\ UNCHANGED <<company, customer, lock, today, target,
                                         snapshot, identifiers, notifications>>

Finish(p, state) ==
    /\ pc' = [pc EXCEPT ![p] = state]
    /\ local' = [local EXCEPT ![p] = NoLocal]
    /\ snapshot' = [snapshot EXCEPT ![p] = NoDoc]
    /\ identifiers' = [identifiers EXCEPT ![p] = NoIdentifiers]
    /\ txn' = [txn EXCEPT ![p] = EmptyTxn]

\* process_jofotara_submission, lines 259-267: publish_realtime in the try block
WorkerNotify(p) ==
    /\ pc[p] = "notify"
    /\ \/ /\ notifications' = notifications \cup
                {[attempt |-> p, invoice_name |-> target[p],
                  status |-> local[p].submission_status]}
          /\ Finish(p, "done")
          /\ UNCHANGED <<company, invoice, customer, logs, lock, today, target,
                         history>>
       \/ \* publish_realtime raises
          /\ pc' = [pc EXCEPT ![p] = "except"]
          /\ UNCHANGED <<company, invoice, customer, logs, lock, today, target,
                         snapshot, identifiers, txn, local, notifications, history>>

\* process_jofotara_submission, lines 269-292: the except clause up to its commit
WorkerExcept(p) ==
    /\ pc[p] = "except"
    /\ LET comp == company[invoice[target[p]].company]
           written == SetValue(txn[p], [custom_jofotara_status |-> "Error"])
           rows == CreateLog(p, comp, "Error", local[p].xml_content, <<"traceback">>)
       IN  \/ /\ invoice' = CommitInvoice(p, written)
              /\ logs' = logs \cup rows
              /\ txn' = [txn EXCEPT ![p] = EmptyTxn]
              /\ pc' = [pc EXCEPT ![p] = "notify_error"]
              /\ UNCHANGED <<company, customer, lock, today, target, snapshot,
                             identifiers, local, notifications, history>>
           \/ \* set_value or log.insert raises again: the job dies, its
              \* transaction is rolled back
              /\ Finish(p, "crashed")
              /\ UNCHANGED <<company, invoice, customer, logs, lock, today,
                             target, notifications, history>>

\* process_jofotara_submission, lines 294-302: publish_realtime in the except clause
WorkerNotifyError(p) ==
    /\ pc[p] = "notify_error"
    /\ \/ /\ notifications' = notifications \cup
                {[attempt |-> p, invoice_name |-> target[p], status |-> "Error"]}
          /\ Finish(p, "done")
       \/ \* publish_realtime raises: the job dies after its commit
          /\ Finish(p, "crashed")
          /\ UNCHANGED notifications
    /\ UNCHANGED <<company, invoice, customer, logs, lock, today, target, history>>

-----------------------------------------------------------------------------

Next ==
    \/ \E p \in Procs, i \in Invoices : Submit(p, i)
    \/ \E p \in Procs : ReuseIdentifiers(p)
    \/ \E p \in Procs : Allocate(p)
    \/ \E p \in Procs : SyncCommit(p)
    \/ \E p \in Procs : Enqueue(p)
    \/ \E p \in Procs : WorkerRun(p)
    \/ \E p \in Procs : WorkerNotify(p)
    \/ \E p \in Procs : WorkerExcept(p)
    \/ \E p \in Procs : WorkerNotifyError(p)
    \/ Tick

Spec == Init /\ [][Next]_vars

-----------------------------------------------------------------------------
(* The company's Starter ICV edited while invoices are being sent          *)

\* Starter ICV is an editable Int field of the Company form; the UPDATE of
\* the row waits for a FOR UPDATE lock on it
SetStarterIcv(c, v) ==
    /\ lock[c] = None
    /\ company[c].custom_starter_icv # v
    /\ company' = [company EXCEPT ![c].custom_starter_icv = v]
    /\ UNCHANGED <<invoice, customer, logs, lock, today, pc, target, snapshot,
                   identifiers, txn, local, notifications, history>>

\* a company with the integration configured, logs off, Starter ICV at its
\* default
InitStarter ==
    /\ Init
    /\ \A c \in Companies :
          /\ company[c].custom_enable_jofotara
          /\ company[c].custom_jofotara_client_id
          /\ company[c].custom_jofotara_secret_key
          /\ ~company[c].custom_jofotara_save_logs
          /\ company[c].custom_starter_icv = 0

NextStarter ==
    \/ Next
    \/ \E c \in Companies, v \in {0, MaxNewStarter} : SetStarterIcv(c, v)

SpecStarter == InitStarter /\ [][NextStarter]_vars

-----------------------------------------------------------------------------
(* Two companies sending invoices side by side                             *)

TwoCompanies == {"CoA", "CoB"}

\* two configured companies with different starters; INV2 belongs to the
\* second, every other invoice to the first
InitCompanies ==
    /\ company =
         [c \in TwoCompanies |->
            [abbr |-> IF c = "CoA" THEN "CA" ELSE "CB",
             custom_enable_jofotara |-> TRUE,
             custom_jofotara_client_id |-> TRUE,
             custom_jofotara_secret_key |-> TRUE,
             custom_jofotara_save_logs |-> (c = "CoB"),
             custom_starter_icv |-> IF c = "CoA" THEN 0 ELSE MaxStarter,
             custom_latest_sent_icv |-> 0,
             custom_last_daily_seq_date |-> 0,
             custom_last_daily_seq_no |-> 0]]
    /\ invoice = [i \in Invoices |->
                    NewInvoice(i, IF i = "INV2" THEN "CoB" ELSE "CoA")]
    /\ customer = [c \in Customers |-> [tax_id |-> FALSE]]
    /\ logs = {}
    /\ lock = [c \in TwoCompanies |-> None]
    /\ today = 1
    /\ pc = [p \in Procs |-> "idle"]
    /\ target = [p \in Procs |-> None]
    /\ snapshot = [p \in Procs |-> NoDoc]
    /\ identifiers = [p \in Procs |-> NoIdentifiers]
    /\ txn = [p \in Procs |-> EmptyTxn]
    /\ local = [p \in Procs |-> NoLocal]
    /\ notifications = {}
    /\ history = [p \in Procs |-> NoHistory]

SpecCompanies == InitCompanies /\ [][Next]_vars

-----------------------------------------------------------------------------
(* Invoices of every payment nature and size, buyers with and without a    *)
(* tax id                                                                  *)

\* payment type, POS flag and amount of a sale: cash below, at and above the
\* threshold, credit, Auto on and off the POS
Profiles ==
    [custom_jofotara_payment_type : {"Cash"}, is_pos : {TRUE},
     grand_total : {100, HighValueThreshold, HighValueThreshold + 1}]
    \cup
    [custom_jofotara_payment_type : {"Credit"}, is_pos : {TRUE}, grand_total : {100}]
    \cup
    [custom_jofotara_payment_type : {"Auto"}, is_pos : BOOLEAN, grand_total : {100}]

\* a configured company that has sent INV1, a cash sale to a registered
\* buyer, with success; one further document is submitted, the sale INV2 or
\* the return RET1 against INV1, of any profile (the amount of a return is
\* negative); the other one is still a draft
InitTaxId ==
    /\ company =
         [c \in Companies |->
            [abbr |-> "CA",
             custom_enable_jofotara |-> TRUE,
             custom_jofotara_client_id |-> TRUE,
             custom_jofotara_secret_key |-> TRUE,
             custom_jofotara_save_logs |-> FALSE,
             custom_starter_icv |-> 0,
             custom_latest_sent_icv |-> 1,
             custom_last_daily_seq_date |-> 1,
             custom_last_daily_seq_no |-> 1]]
    /\ \E profile \in Profiles, subject \in {"INV2", "RET1"} :
          invoice =
             [i \in Invoices |->
                IF i = "INV1"
                THEN [NewInvoice(i, "CoA") EXCEPT
                         !.customer = "CreditCustomer",
                         !.custom_jofotara_id = JofotaraId("CA", 1, 1),
                         !.custom_jofotara_uuid = "p0",
                         !.custom_jofotara_icv = 1,
                         !.custom_jofotara_status = "Success",
                         !.custom_jofotara_qr = "QR"]
                ELSE IF i = subject
                THEN [NewInvoice(i, "CoA") EXCEPT
                         !.custom_jofotara_payment_type =
                             profile.custom_jofotara_payment_type,
                         !.is_pos = profile.is_pos,
                         !.grand_total = IF i \in Returns THEN -profile.grand_total
                                         ELSE profile.grand_total,
                         !.customer = "CashCustomer"]
                ELSE IF i \in {"INV2", "RET1"}
                THEN [NewInvoice(i, "CoA") EXCEPT !.docstatus = 0]
                ELSE NewInvoice(i, "CoA")]
    \* the buyer of the document has no tax id, or has one and buys on credit
    /\ \E registered \in BOOLEAN :
          /\ registered =>
                \E i \in Invoices :
                   /\ invoice[i].docstatus = 1
                   /\ invoice[i].custom_jofotara_payment_type = "Credit"
          /\ customer = [c \in Customers |->
                           [tax_id |-> IF c = "CreditCustomer" THEN TRUE
                                       ELSE registered]]
    /\ logs = {}
    /\ lock = [c \in Companies |-> None]
    /\ today = 1
    /\ pc = [p \in Procs |-> "idle"]
    /\ target = [p \in Procs |-> None]
    /\ snapshot = [p \in Procs |-> NoDoc]
    /\ identifiers = [p \in Procs |-> NoIdentifiers]
    /\ txn = [p \in Procs |-> EmptyTxn]
    /\ local = [p \in Procs |-> NoLocal]
    /\ notifications = {}
    /\ history = [p \in Procs |-> NoHistory]

SpecTaxId == InitTaxId /\ [][Next]_vars

-----------------------------------------------------------------------------
(* A return whose original loses its UUID                                  *)

\* the hidden, read-only JoFotara UUID of an invoice that returns refer to is
\* emptied by a write from outside the integration
ClearOriginalUuid(i) ==
    /\ invoice[i].custom_jofotara_uuid # ""
    /\ \E r \in Invoices : invoice[r].return_against = i
    /\ invoice' = [invoice EXCEPT ![i].custom_jofotara_uuid = ""]
    /\ UNCHANGED <<company, customer, logs, lock, today, pc, target, snapshot,
                   identifiers, txn, local, notifications, history>>

\* a configured company that has sent INV1 with success; the return RET1
\* against it is submitted, INV2 is still a draft
InitReturn ==
    /\ company =
         [c \in Companies |->
            [abbr |-> "CA",
             custom_enable_jofotara |-> TRUE,
             custom_jofotara_client_id |-> TRUE,
             custom_jofotara_secret_key |-> TRUE,
             custom_jofotara_save_logs |-> FALSE,
             custom_starter_icv |-> 0,
             custom_latest_sent_icv |-> 1,
             custom_last_daily_seq_date |-> 1,
             custom_last_daily_seq_no |-> 1]]
    /\ invoice =
         [i \in Invoices |->
            IF i = "INV1"
            THEN [NewInvoice(i, "CoA") EXCEPT
                     !.custom_jofotara_id = JofotaraId("CA", 1, 1),
                     !.custom_jofotara_uuid = "p0",
                     !.custom_jofotara_icv = 1,
                     !.custom_jofotara_status = "Success",
                     !.custom_jofotara_qr = "QR"]
            ELSE IF i = "INV2"
            THEN [NewInvoice(i, "CoA") EXCEPT !.docstatus = 0]
            ELSE NewInvoice(i, "CoA")]
    /\ customer = [c \in Customers |-> [tax_id |-> FALSE]]
    /\ logs = {}
    /\ lock = [c \in Companies |-> None]
    /\ today = 1
    /\ pc = [p \in Procs |-> "idle"]
    /\ target = [p \in Procs |-> None]
    /\ snapshot = [p \in Procs |-> NoDoc]
    /\ identifiers = [p \in Procs |-> NoIdentifiers]
    /\ txn = [p \in Procs |-> EmptyTxn]
    /\ local = [p \in Procs |-> NoLocal]
    /\ notifications = {}
    /\ history = [p \in Procs |-> NoHistory]

NextReturn ==
    \/ Next
    \/ \E i \in Invoices : ClearOriginalUuid(i)

SpecReturn == InitReturn /\ [][NextReturn]_vars

-----------------------------------------------------------------------------
(* Cancellation of a submitted invoice                                     *)

\* a hook that lets every cancellation through
CancelBlockedNever(doc) == FALSE

\* on_sales_invoice_cancel throws
CancelBlocked(doc) == doc.custom_jofotara_status = "Success"

\* a user cancels the submitted invoice i: the before_cancel hook runs on the
\* document; when it does not throw the document becomes cancelled
Cancel(p, i) ==
    /\ pc[p] = "idle"
    /\ MayStart(p)
    /\ invoice[i].docstatus = 1
    /\ target' = [target EXCEPT ![p] = i]
    /\ IF CancelBlocked(invoice[i])
       THEN /\ pc' = [pc EXCEPT ![p] = "cancel_rejected"]
            /\ UNCHANGED invoice
       ELSE /\ pc' = [pc EXCEPT ![p] = "cancelled"]
            /\ invoice' = [invoice EXCEPT ![i].docstatus = 2]
    /\ UNCHANGED <<company, customer, logs, lock, today, snapshot, identifiers,
                   txn, local, notifications, history>>

NextCancel ==
    \/ Next
    \/ \E p \in Procs, i \in Invoices : Cancel(p, i)

SpecCancel == InitStarter /\ [][NextCancel]_vars

-----------------------------------------------------------------------------
(* The identifier issuer called for invoices whose company row is gone     *)

\* JoFotaraIDManager(invoice.company).generate_identifiers(invoice) is
\* entered with the invoice document i
CallIssuer(p, i) ==
    /\ pc[p] = "idle"
    /\ MayStart(p)
    /\ target' = [target EXCEPT ![p] = i]
    /\ snapshot' = [snapshot EXCEPT ![p] = LoadedDoc(i)]
    /\ pc' = [pc EXCEPT ![p] = "validated"]
    /\ UNCHANGED <<company, invoice, customer, logs, lock, today, identifiers,
                   txn, local, notifications, history>>

\* generate_identifiers, lines 72-89: the SELECT finds no row and the call
\* throws before any write
CompanyNotFound(p) ==
    /\ pc[p] = "validated"
    /\ ~HasIdentifiers(snapshot[p])
    /\ invoice[target[p]].company \notin DOMAIN company
    /\ pc' = [pc EXCEPT ![p] = "failed"]
    /\ history' = [history EXCEPT ![p].outcome = "Company not found"]
    /\ UNCHANGED <<company, invoice, customer, logs, lock, today, target,
                   snapshot, identifiers, txn, local, notifications>>

\* one company; INV2 and RET1 belong to a company without a row, RET1 with
\* identifiers from an earlier allocation
InitIssuer ==
    /\ company =
         [c \in Companies |->
            [abbr |-> "CA",
             custom_enable_jofotara |-> TRUE,
             custom_jofotara_client_id |-> TRUE,
             custom_jofotara_secret_key |-> TRUE,
             custom_jofotara_save_logs |-> FALSE,
             custom_starter_icv |-> 0,
             custom_latest_sent_icv |-> 0,
             custom_last_daily_seq_date |-> 0,
             custom_last_daily_seq_no |-> 0]]
    /\ invoice =
         [i \in Invoices |->
            IF i = "INV2" THEN NewInvoice(i, "CoX")
            ELSE IF i = "RET1"
            THEN [NewInvoice(i, "CoX") EXCEPT
                     !.custom_jofotara_id = JofotaraId("CX", 1, 1),
                     !.custom_jofotara_uuid = "p0",
                     !.custom_jofotara_icv = 1,
                     !.custom_jofotara_status = "Error"]
            ELSE NewInvoice(i, "CoA")]
    /\ customer = [c \in Customers |-> [tax_id |-> FALSE]]
    /\ logs = {}
    /\ lock = [c \in Companies |-> None]
    /\ today = 1
    /\ pc = [p \in Procs |-> "idle"]
    /\ target = [p \in Procs |-> None]
    /\ snapshot = [p \in Procs |-> NoDoc]
    /\ identifiers = [p \in Procs |-> NoIdentifiers]
    /\ txn = [p \in Procs |-> EmptyTxn]
    /\ local = [p \in Procs |-> NoLocal]
    /\ notifications = {}
    /\ history = [p \in Procs |-> NoHistory]

NextIssuer ==
    \/ \E p \in Procs, i \in Invoices : CallIssuer(p, i)
    \/ \E p \in Procs : ReuseIdentifiers(p)
    \/ \E p \in Procs : Allocate(p)
    \/ \E p \in Procs : CompanyNotFound(p)
    \/ \E p \in Procs : SyncCommit(p)
    \/ Tick

SpecIssuer == InitIssuer /\ [][NextIssuer]_vars

-----------------------------------------------------------------------------
(* Functions called on their own: everything but the caller's position and *)
(* its locals stays as it is                                               *)

rest == <<company, invoice, customer, logs, lock, today, target, snapshot,
          identifiers, txn, notifications, history>>

\* the site at rest: one configured company, nothing sent, nobody in a call
Standalone ==
    /\ company =
         [c \in Companies |->
            [abbr |-> "CA",
             custom_enable_jofotara |-> TRUE,
             custom_jofotara_client_id |-> TRUE,
             custom_jofotara_secret_key |-> TRUE,
             custom_jofotara_save_logs |-> FALSE,
             custom_starter_icv |-> 0,
             custom_latest_sent_icv |-> 0,
             custom_last_daily_seq_date |-> 0,
             custom_last_daily_seq_no |-> 0]]
    /\ invoice = [i \in Invoices |-> NewInvoice(i, "CoA")]
    /\ customer = [c \in Customers |-> [tax_id |-> FALSE]]
    /\ logs = {}
    /\ lock = [c \in Companies |-> None]
    /\ today = 1
    /\ pc = [p \in Procs |-> "idle"]
    /\ target = [p \in Procs |-> None]
    /\ snapshot = [p \in Procs |-> NoDoc]
    /\ identifiers = [p \in Procs |-> NoIdentifiers]
    /\ txn = [p \in Procs |-> EmptyTxn]
    /\ notifications = {}
    /\ history = [p \in Procs |-> NoHistory]

-----------------------------------------------------------------------------
(* The transport client                                                    *)

HttpOk == 200

\* status codes a response can carry
StatusCodes == {HttpOk, HttpOk + 1, 400, 500}

\* what requests.post does: a response arrives or an exception is raised
TransportKinds == {"response", "Timeout", "ConnectionError", "RequestException"}

\* response.text: empty, not JSON, a JSON object (with its "message" and
\* "error" members, "" when absent or empty), or JSON of another type
Bodies ==
    [shape : {"empty", "not_json", "non_object"}, message : {""}, error : {""}]
    \cup [shape : {"object"}, message : {"", "msg"}, error : {"", "err"}]

NoBody == [shape |-> "empty", message |-> "", error |-> ""]

\* the outcomes of the one requests.post
TransportOutcomes ==
    [kind : {"response"}, status_code : StatusCodes, body : Bodies]
    \cup [kind : TransportKinds \ {"response"}, status_code : {0}, body : {NoBody}]

\* a client id or secret key: None, empty, or a value
Credentials == {None, "", "key"}

\* "not x" of a string or None
Falsy(x) == x \in {None, ""}

\* only the client id looked at
CredentialsMissingIdOnly(client_id, secret_key) == Falsy(client_id)

\* send_invoice, line 46
CredentialsMissingIn(client_id, secret_key) ==
    Falsy(client_id) \/ Falsy(secret_key)

\* line 87: message, else error, else the status text
ErrorMsg(body, status_code) ==
    IF body.message # "" THEN body.message
    ELSE IF body.error # "" THEN body.error
    ELSE "API returned status"

\* JoFotaraAPIClient.send_invoice for one outcome of the transport: what it
\* returns (status_code 0 and error "" when the key is absent), or the
\* exception that leaves it, and the number of POSTs made
SendInvoiceResult(client_id, secret_key, outcome) ==
    IF CredentialsMissingIn(client_id, secret_key)
    THEN [ends |-> "returned", success |-> FALSE, status_code |-> 0,
          error |-> "credentials are not configured", posts |-> 0]
    ELSE IF outcome.kind = "Timeout"
    THEN [ends |-> "returned", success |-> FALSE, status_code |-> 0,
          error |-> "timed out", posts |-> 1]
    ELSE IF outcome.kind = "ConnectionError"
    THEN [ends |-> "returned", success |-> FALSE, status_code |-> 0,
          error |-> "failed to connect", posts |-> 1]
    ELSE IF outcome.kind = "RequestException"
    THEN [ends |-> "returned", success |-> FALSE, status_code |-> 0,
          error |-> "str(e)", posts |-> 1]
    ELSE IF outcome.status_code = HttpOk
    THEN [ends |-> "returned", success |-> TRUE,
          status_code |-> outcome.status_code, error |-> "", posts |-> 1]
    ELSE IF outcome.body.shape = "non_object"
    THEN [ends |-> "AttributeError", success |-> FALSE, status_code |-> 0,
          error |-> "", posts |-> 1]
    ELSE [ends |-> "returned", success |-> FALSE,
          status_code |-> outcome.status_code,
          error |-> ErrorMsg(outcome.body, outcome.status_code), posts |-> 1]

TransportCalls ==
    [client_id : Credentials, secret_key : Credentials,
     outcome : TransportOutcomes]

\* every caller is about to call send_invoice with some credentials, and
\* the transport will answer in some way
InitTransport ==
    /\ Standalone
    /\ local \in [Procs -> TransportCalls]

\* the call of send_invoice by p
SendInvoiceCall(p) ==
    /\ pc[p] = "idle"
    /\ pc' = [pc EXCEPT ![p] = "sent"]
    /\ local' = [local EXCEPT ![p] =
                    [call |-> local[p],
                     result |-> SendInvoiceResult(local[p].client_id,
                                                  local[p].secret_key,
                                                  local[p].outcome)]]
    /\ UNCHANGED rest

NextTransport == \E p \in Procs : SendInvoiceCall(p)

SpecTransport == InitTransport /\ [][NextTransport]_vars

-----------------------------------------------------------------------------
(* The XML generator: invoice type name                                    *)

\* Address.country of the customer address: unset, home, or abroad
Countries == {"", "Jordan", "Saudi Arabia"}

\* custom_jofotara_payment_type: unset or one of the options
PaymentTypes == {"", "Cash", "Credit", "Auto"}

\* _get_customer_country: customer_address says whether the invoice names an
\* address, country is the country of that address
CustomerCountry(customer_address, country) ==
    IF customer_address /\ country # "" THEN country ELSE "Jordan"

\* 1st digit
IsExport(customer_address, country) ==
    IF CustomerCountry(customer_address, country) # "Jordan" THEN "1" ELSE "0"

\* Auto taken as credit whatever the kind of sale
IsCreditAutoCredit(payment_type, is_pos) ==
    IF payment_type \in {"Credit", "Auto"} THEN "2" ELSE "1"

\* 2nd digit
IsCredit(payment_type, is_pos) ==
    LET pt == IF payment_type = "" THEN "Cash" ELSE payment_type
    IN  IF pt = "Auto" THEN (IF is_pos THEN "1" ELSE "2")
        ELSE IF pt = "Credit" THEN "2"
        ELSE "1"

\* 3rd digit
TaxType(vat_registered) == IF vat_registered THEN "2" ELSE "1"

\* _get_invoice_type_name
InvoiceTypeName(inv, comp) ==
    <<IsExport(inv.customer_address, inv.country),
      IsCredit(inv.custom_jofotara_payment_type, inv.is_pos),
      TaxType(comp.custom_jofotara_vat_registered)>>

\* the documents a generator is built from, as far as the type name reads
\* them
TypeNameInputs ==
    [inv : [customer_address : BOOLEAN, country : Countries,
            custom_jofotara_payment_type : PaymentTypes, is_pos : BOOLEAN],
     comp : [custom_jofotara_vat_registered : BOOLEAN]]

InitTypeName ==
    /\ Standalone
    /\ local \in [Procs -> TypeNameInputs]

\* the call of _get_invoice_type_name by p
GetInvoiceTypeName(p) ==
    /\ pc[p] = "idle"
    /\ pc' = [pc EXCEPT ![p] = "named"]
    /\ local' = [local EXCEPT ![p] =
                    [inv |-> local[p].inv, comp |-> local[p].comp,
                     invoice_type_name |->
                        InvoiceTypeName(local[p].inv, local[p].comp)]]
    /\ UNCHANGED rest

NextTypeName == \E p \in Procs : GetInvoiceTypeName(p)

SpecTypeName == InitTypeName /\ [][NextTypeName]_vars

-----------------------------------------------------------------------------
(* The XML generator: decimal arithmetic                                   *)
(* A Decimal that is not negative is the number of its units of 10^-9, a   *)
(* sequence of decimal digits with the least significant digit first and   *)
(* no zero at its end; zero is the empty sequence.                         *)

\* PRECISION = Decimal("0.000000001")
FractionDigits == 9

RECURSIVE TrimLE(_)
TrimLE(a) ==
    IF a = <<>> THEN <<>>
    ELSE IF a[Len(a)] = 0 THEN TrimLE(SubSeq(a, 1, Len(a) - 1))
    ELSE a

\* the digits of a natural number, least significant first
RECURSIVE FromNat(_)
FromNat(n) == IF n = 0 THEN <<>> ELSE <<n % 10>> \o FromNat(n \div 10)

\* 10^n
Pow10(n) == [k \in 1..(n + 1) |-> IF k = n + 1 THEN 1 ELSE 0]

\* Decimal + Decimal
RECURSIVE AddLE(_, _, _)
AddLE(a, b, carry) ==
    IF a = <<>> /\ b = <<>>
    THEN (IF carry = 0 THEN <<>> ELSE <<carry>>)
    ELSE LET x == IF a = <<>> THEN 0 ELSE Head(a)
             y == IF b = <<>> THEN 0 ELSE Head(b)
             sum == x + y + carry
         IN  <<sum % 10>> \o AddLE(IF a = <<>> THEN <<>> ELSE Tail(a),
                                   IF b = <<>> THEN <<>> ELSE Tail(b),
                                   sum \div 10)

Add(a, b) == TrimLE(AddLE(a, b, 0))

\* Decimal - Decimal, for a >= b
RECURSIVE SubLE(_, _, _)
SubLE(a, b, borrow) ==
    IF a = <<>> THEN <<>>
    ELSE LET y == (IF b = <<>> THEN 0 ELSE Head(b)) + borrow
             x == Head(a)
         IN  IF x >= y
             THEN <<x - y>> \o SubLE(Tail(a), IF b = <<>> THEN <<>> ELSE Tail(b), 0)
             ELSE <<x + 10 - y>> \o SubLE(Tail(a), IF b = <<>> THEN <<>> ELSE Tail(b), 1)

Sub(a, b) == TrimLE(SubLE(a, b, 0))

RECURSIVE MulDigit(_, _, _)
MulDigit(a, d, carry) ==
    IF a = <<>>
    THEN (IF carry = 0 THEN <<>> ELSE <<carry>>)
    ELSE LET prod == Head(a) * d + carry
         IN  <<prod % 10>> \o MulDigit(Tail(a), d, prod \div 10)

\* Decimal * Decimal, as a number of units of the product of the units
RECURSIVE Mul(_, _)
Mul(a, b) ==
    IF a = <<>> \/ b = <<>> THEN <<>>
    ELSE TrimLE(AddLE(MulDigit(a, Head(b), 0),
                      IF Tail(b) = <<>> THEN <<>> ELSE <<0>> \o Mul(a, Tail(b)),
                      0))

RECURSIVE CmpFrom(_, _, _)
CmpFrom(a, b, k) ==
    IF k = 0 THEN 0
    ELSE IF a[k] < b[k] THEN -1
    ELSE IF a[k] > b[k] THEN 1
    ELSE CmpFrom(a, b, k - 1)

\* -1, 0 or 1 as a < b, a = b or a > b
Cmp(a, b) ==
    IF Len(a) < Len(b) THEN -1
    ELSE IF Len(a) > Len(b) THEN 1
    ELSE CmpFrom(a, b, Len(a))

Leq(a, b) == Cmp(a, b) <= 0

\* long division, digit k of a downwards: acc holds the quotient and the
\* remainder so far
RECURSIVE DivFrom(_, _, _, _)
DivFrom(a, b, k, acc) ==
    IF k = 0 THEN acc
    ELSE LET r == TrimLE(<<a[k]>> \o acc.r)
             d == CHOOSE d \in 0..9 :
                     /\ Leq(Mul(b, FromNat(d)), r)
                     /\ d = 9 \/ ~Leq(Mul(b, FromNat(d + 1)), r)
             next == [q |-> <<d>> \o acc.q, r |-> Sub(r, Mul(b, FromNat(d)))]
         IN  \* the digit is worked out before the next one is taken
             IF Len(next.q) > 0 THEN DivFrom(a, b, k - 1, next) ELSE acc

\* the whole part of a / b, for b > 0
Div(a, b) == TrimLE(DivFrom(a, b, Len(a), [q |-> <<>>, r |-> <<>>]).q)

\* the quotient cut off instead of rounded
RoundDown(num, den) == Div(num, den)

\* quantize(PRECISION, rounding=ROUND_HALF_UP) of num / den units
RoundHalfUp(num, den) ==
    Div(Add(Mul(num, <<2>>), den), Mul(den, <<2>>))

\* a number as the documents hold it: sign, whole part and the nine digits
\* after the point
Num(sign, units, nanos) == [sign |-> sign, units |-> units, nanos |-> nanos]

Zero == Num(1, 0, 0)

\* abs(flt(value))
AbsNum(v) == [v EXCEPT !.sign = 1]

\* _to_decimal of a number that is not negative
ToDecimal(v) ==
    TrimLE([k \in 1..FractionDigits |->
               (v.nanos \div (10 ^ (k - 1))) % 10] \o FromNat(v.units))

\* reversed
RECURSIVE Reverse(_)
Reverse(a) == IF a = <<>> THEN <<>> ELSE Append(Reverse(Tail(a)), Head(a))

\* _format_amount: the digits, the point before the last nine of them
FormatAmount(d) ==
    LET padded == IF Len(d) > FractionDigits THEN d
                  ELSE d \o [k \in 1..(FractionDigits + 1 - Len(d)) |-> 0]
        digits == Reverse(padded)
    IN  SubSeq(digits, 1, Len(digits) - FractionDigits)
        \o <<".">>
        \o SubSeq(digits, Len(digits) - FractionDigits + 1, Len(digits))

-----------------------------------------------------------------------------
(* The XML generator: line items                                           *)

\* Decimal("100")
Hundred == 100

\* sum([float(t.rate) ...]) of the rates of a list of tax rows
RECURSIVE SumRates(_)
SumRates(rows) ==
    IF rows = <<>> THEN <<>>
    ELSE Add(ToDecimal(Head(rows)), SumRates(Tail(rows)))

\* the invoice taxes added whether or not the item has a template
ItemTaxRateBoth(item, taxes) ==
    Add(SumRates(item.template_taxes), SumRates(taxes))

\* _get_item_tax_rate
ItemTaxRate(item, taxes) ==
    IF item.item_tax_template THEN SumRates(item.template_taxes)
    ELSE SumRates(taxes)

\* line 291
TaxCategory(tax_rate, country) ==
    IF tax_rate # <<>> THEN "S"
    ELSE IF country = "Jordan" THEN "Z" ELSE "O"

\* _calculate_tax: amount * (rate / 100)
CalculateTax(amount_dec, tax_rate) ==
    RoundHalfUp(Mul(amount_dec, tax_rate),
                Mul(FromNat(Hundred), Pow10(FractionDigits)))

\* the body of the loop of _process_line_items for one item
ProcessLineItem(item, taxes, country) ==
    LET qty_dec == ToDecimal(AbsNum(item.qty))
        amount_dec == ToDecimal(AbsNum(item.amount))
        unit_price_dec ==
            IF qty_dec # <<>>
            THEN RoundHalfUp(Mul(amount_dec, Pow10(FractionDigits)), qty_dec)
            ELSE <<>>
        line_extension_dec ==
            RoundHalfUp(Mul(qty_dec, unit_price_dec), Pow10(FractionDigits))
        tax_rate == ItemTaxRate(item, taxes)
        tax_amount_dec == CalculateTax(line_extension_dec, tax_rate)
        rounding_amount_dec == Add(line_extension_dec, tax_amount_dec)
    IN  [qty |-> FormatAmount(qty_dec),
         unit_price |-> FormatAmount(unit_price_dec),
         line_extension |-> FormatAmount(line_extension_dec),
         tax_amount |-> FormatAmount(tax_amount_dec),
         rounding_amount |-> FormatAmount(rounding_amount_dec),
         tax_category |-> TaxCategory(tax_rate, country),
         tax_percent |-> tax_rate,
         unit_price_dec |-> unit_price_dec,
         line_extension_dec |-> line_extension_dec,
         tax_amount_dec |-> tax_amount_dec,
         rounding_amount_dec |-> rounding_amount_dec]

\* quantities and amounts of items: whole, fractional, zero, and negative
\* as on a return
Amounts ==
    {<<Num(1, 2, 0), Num(1, 20, 0)>>,
     <<Num(1, 3, 0), Num(1, 20, 0)>>,
     <<Num(1, 3, 0), Num(1, 10, 0)>>,
     <<Num(1, 0, 0), Num(1, 20, 0)>>,
     <<Num(-1, 2, 0), Num(-1, 20, 0)>>,
     <<Num(1, 7, 0), Num(1, 0, 1)>>,
     <<Num(1, 0, 500000000), Num(1, 1, 1)>>,
     <<Num(1, 1, 0), Num(1, 0, 31)>>,
     <<Num(1, 1, 0), Num(1, 0, 20)>>}

\* lists of tax rows, each with its rate
RateLists ==
    {<<>>, <<Zero>>, <<Num(1, 16, 0)>>, <<Num(1, 8, 0), Num(1, 8, 0)>>,
     <<Num(1, 7, 500000000)>>, <<Zero, Num(1, 16, 0)>>}

\* the items of an invoice: item_tax_template says whether the item names a
\* template, template_taxes are the rows of that template
Items ==
    {[qty |-> a[1], amount |-> a[2], item_tax_template |-> FALSE,
      template_taxes |-> <<>>] : a \in Amounts}
    \cup
    {[qty |-> a[1], amount |-> a[2], item_tax_template |-> TRUE,
      template_taxes |-> r] : a \in Amounts, r \in RateLists}

LineInputs ==
    [item : Items, taxes : RateLists,
     customer_address : BOOLEAN, country : Countries]

\* the process that builds the document
Generator == ProcOrder[1]

InitLines ==
    /\ Standalone
    /\ \E input \in LineInputs :
          local = [p \in Procs |-> IF p = Generator THEN input ELSE NoLocal]

\* _process_line_items on an invoice of one item
ProcessLineItems ==
    /\ pc[Generator] = "idle"
    /\ pc' = [pc EXCEPT ![Generator] = "processed"]
    /\ local' = [local EXCEPT ![Generator] =
                    [input |-> local[Generator],
                     line |-> ProcessLineItem(
                                 local[Generator].item,
                                 local[Generator].taxes,
                                 CustomerCountry(local[Generator].customer_address,
                                                 local[Generator].country))]]
    /\ UNCHANGED rest

NextLines == ProcessLineItems

SpecLines == InitLines /\ [][NextLines]_vars

-----------------------------------------------------------------------------
(* The XML generator: totals                                               *)

\* the sum of one Decimal field over the cached items
RECURSIVE SumOf(_, _)
SumOf(items, field) ==
    IF items = <<>> THEN <<>>
    ELSE Add(Head(items)[field], SumOf(Tail(items), field))

\* invoice.discount_amount or 0
OrZero(value) == IF value.is_none THEN Zero ELSE value.number

\* the allowance left out
PayableNoAllowance(tax_inclusive, allowance_total) == tax_inclusive

\* lines 365-368
Payable(tax_inclusive, allowance_total) ==
    IF Cmp(tax_inclusive, allowance_total) < 0 THEN <<>>
    ELSE Sub(tax_inclusive, allowance_total)

\* _calculate_totals
CalculateTotalsOf(cached_items, discount_amount) ==
    LET tax_exclusive == SumOf(cached_items, "line_extension_dec")
        total_tax == SumOf(cached_items, "tax_amount_dec")
        tax_inclusive == Add(tax_exclusive, total_tax)
        allowance_total == ToDecimal(AbsNum(OrZero(discount_amount)))
        payable == Payable(tax_inclusive, allowance_total)
    IN  [tax_exclusive |-> FormatAmount(tax_exclusive),
         tax_inclusive |-> FormatAmount(tax_inclusive),
         total_tax |-> FormatAmount(total_tax),
         allowance_total |-> FormatAmount(allowance_total),
         discount_amount |-> FormatAmount(allowance_total),
         payable |-> FormatAmount(payable)]

\* the most items on an invoice
MaxItems == 2

\* the items invoices are made of
TotalsItems ==
    {[qty |-> a[1], amount |-> a[2], item_tax_template |-> FALSE,
      template_taxes |-> <<>>] :
        a \in {<<Num(1, 2, 0), Num(1, 20, 0)>>,
               <<Num(1, 3, 0), Num(1, 20, 0)>>,
               <<Num(-1, 1, 0), Num(-1, 0, 31)>>}}

\* invoice.discount_amount: unset, zero, below and above the totals, of
\* either sign
Discounts ==
    {[is_none |-> TRUE, number |-> Zero]}
    \cup [is_none : {FALSE},
          number : {Zero, Num(1, 5, 0), Num(-1, 5, 0), Num(1, 100, 0),
                    Num(1, 0, 1)}]

TotalsInputs ==
    [items : SeqsUpTo(TotalsItems, MaxItems),
     taxes : {<<>>, <<Num(1, 16, 0)>>},
     discount_amount : Discounts]

InitTotals ==
    /\ Standalone
    /\ \E input \in TotalsInputs :
          local = [p \in Procs |-> IF p = Generator THEN input ELSE NoLocal]

\* generate, line 70: the items are processed and cached
CacheItems ==
    /\ pc[Generator] = "idle"
    /\ pc' = [pc EXCEPT ![Generator] = "cached"]
    /\ local' = [local EXCEPT ![Generator] =
                    [invoice |-> local[Generator],
                     cached_items |->
                        [k \in 1..Len(local[Generator].items) |->
                            ProcessLineItem(local[Generator].items[k],
                                            local[Generator].taxes,
                                            "Jordan")]]]
    /\ UNCHANGED rest

\* _build_context, line 102: the totals are worked out from the cached items
CalculateTotals ==
    /\ pc[Generator] = "cached"
    /\ pc' = [pc EXCEPT ![Generator] = "totalled"]
    /\ local' = [local EXCEPT ![Generator] =
                    [invoice |-> local[Generator].invoice,
                     cached_items |-> local[Generator].cached_items,
                     totals |-> CalculateTotalsOf(
                                   local[Generator].cached_items,
                                   local[Generator].invoice.discount_amount)]]
    /\ UNCHANGED rest

NextTotals == CacheItems \/ CalculateTotals

SpecTotals == InitTotals /\ [][NextTotals]_vars

-----------------------------------------------------------------------------
(* The XML generator: minification                                         *)
(* A text is the sequence of its characters.                               *)

\* the longest text
MaxLen == 4

\* the characters of a text: the tag delimiters, a letter, and whitespace
Chars == {"<", ">", "a", " ", "\n", "\r", "\t", "\f"}

\* what \s matches and strip() removes
Whitespace == {" ", "\n", "\r", "\t", "\f"}

\* the tabs left in
RECURSIVE FlattenKeepTabs(_)
FlattenKeepTabs(text) ==
    IF text = <<>> THEN <<>>
    ELSE IF Head(text) = "\n" THEN <<" ">> \o FlattenKeepTabs(Tail(text))
    ELSE IF Head(text) = "\r" THEN FlattenKeepTabs(Tail(text))
    ELSE <<Head(text)>> \o FlattenKeepTabs(Tail(text))

\* replace('\n', ' ').replace('\r', '').replace('\t', ' ')
RECURSIVE Flatten(_)
Flatten(text) ==
    IF text = <<>> THEN <<>>
    ELSE IF Head(text) \in {"\n", "\t"} THEN <<" ">> \o Flatten(Tail(text))
    ELSE IF Head(text) = "\r" THEN Flatten(Tail(text))
    ELSE <<Head(text)>> \o Flatten(Tail(text))

\* the number of whitespace characters text starts with
RECURSIVE LeadingSpace(_)
LeadingSpace(text) ==
    IF text # <<>> /\ Head(text) \in Whitespace
    THEN 1 + LeadingSpace(Tail(text))
    ELSE 0

\* re.sub(r'>\s+<', '><', text): the matches are taken from the left and do
\* not overlap
RECURSIVE SubBetweenTags(_)
SubBetweenTags(text) ==
    IF text = <<>> THEN <<>>
    ELSE LET n == LeadingSpace(Tail(text))
         IN  IF /\ Head(text) = ">"
                /\ n > 0
                /\ Len(text) > n + 1
                /\ text[n + 2] = "<"
             THEN <<">", "<">> \o SubBetweenTags(SubSeq(text, n + 3, Len(text)))
             ELSE <<Head(text)>> \o SubBetweenTags(Tail(text))

\* str.strip()
Strip(text) ==
    LET lead == LeadingSpace(text)
        trail == LeadingSpace(Reverse(text))
    IN  IF lead = Len(text) THEN <<>>
        ELSE SubSeq(text, lead + 1, Len(text) - trail)

\* _minify_xml
MinifyXml(xml_string) == Strip(SubBetweenTags(Flatten(xml_string)))

InitMinify ==
    /\ Standalone
    /\ \E xml_string \in SeqsUpTo(Chars, MaxLen) :
          local = [p \in Procs |->
                     IF p = Generator THEN [xml_string |-> xml_string]
                     ELSE NoLocal]

\* generate, line 75: the rendered text is minified
Minify ==
    /\ pc[Generator] = "idle"
    /\ pc' = [pc EXCEPT ![Generator] = "minified"]
    /\ local' = [local EXCEPT ![Generator] =
                    [xml_string |-> local[Generator].xml_string,
                     xml_content |-> MinifyXml(local[Generator].xml_string)]]
    /\ UNCHANGED rest

\* _minify_xml applied to its own result
MinifyAgain ==
    /\ pc[Generator] = "minified"
    /\ pc' = [pc EXCEPT ![Generator] = "minified_twice"]
    /\ local' = [local EXCEPT ![Generator] =
                    [xml_string |-> local[Generator].xml_string,
                     xml_content |-> local[Generator].xml_content,
                     again |-> MinifyXml(local[Generator].xml_content)]]
    /\ UNCHANGED rest

NextMinify == Minify \/ MinifyAgain

SpecMinify == InitMinify /\ [][NextMinify]_vars

-----------------------------------------------------------------------------
(* Properties *)

Allocators == {p \in Procs : history[p].allocated # 0}

HandedOut == {history[p].allocated : p \in Allocators}

\* the counter the company started from
BaseCounter(c) == company[c].custom_starter_icv

Sent(i) == invoice[i].custom_jofotara_status

InFlight(p) == pc[p] \in {"queued", "notify", "except", "notify_error"}

Ended(p) == pc[p] \in {"done", "crashed"}

StoredIdentifiers(i) ==
    [jofotara_id |-> invoice[i].custom_jofotara_id,
     jofotara_uuid |-> invoice[i].custom_jofotara_uuid,
     jofotara_icv |-> invoice[i].custom_jofotara_icv]

\* the identifiers carried by the invoice document a call loaded
CarriedIdentifiers(p) ==
    [jofotara_id |-> snapshot[p].custom_jofotara_id,
     jofotara_uuid |-> snapshot[p].custom_jofotara_uuid,
     jofotara_icv |-> snapshot[p].custom_jofotara_icv]

CredentialsMissing(c) ==
    ~company[c].custom_jofotara_client_id \/ ~company[c].custom_jofotara_secret_key

\* the call p of submitInvoice is made in this step, for invoice i
Calls(p, i) == pc[p] = "idle" /\ pc'[p] # "idle" /\ target'[p] = i

\* nothing persistent changes and nothing is enqueued or allocated
NothingMutated ==
    /\ company' = company
    /\ invoice' = invoice
    /\ logs' = logs
    /\ lock' = lock
    /\ notifications' = notifications
    /\ txn' = txn
    /\ history' = history
    /\ \A q \in Procs : pc'[q] = "queued" => pc[q] = "queued"

\* C1: the audit counters handed out by the allocations of one company, in
\* every interleaving, are pairwise distinct and form a run of consecutive
\* integers without a gap: N allocations hand out N consecutive values.
C1_ConsecutiveCounters ==
    /\ \A p, q \in Allocators :
          p # q => history[p].allocated # history[q].allocated
    /\ \A c \in Companies :
          HandedOut = (BaseCounter(c) + 1)..(BaseCounter(c) + Cardinality(Allocators))

\* two calls for distinct invoices, both loaded before either allocated, have
\* both been handed a counter
C1_Witness ==
    \E p, q \in Procs :
        /\ target[p] # target[q]
        /\ pc[p] = "committed"
        /\ pc[q] = "allocated"
        /\ history[p].allocated # 0
        /\ history[q].allocated = history[p].allocated + 1

\* C2: generate_identifiers for an invoice document that already carries a
\* document id returns exactly the stored triple, writes nothing (Counter
\* State and the invoice's identifier fields stay as they are, also after the
\* commit that follows) and hands out no new counter value.
C2_RetryReusesIdentifiers ==
    [][\A p \in Procs :
          /\ (/\ pc[p] = "validated"
              /\ pc'[p] = "allocated"
              /\ snapshot[p].custom_jofotara_id # EmptyId)
             => /\ identifiers'[p] = CarriedIdentifiers(p)
                /\ company' = company
                /\ invoice' = invoice
                /\ txn'[p] = EmptyTxn
                /\ lock' = lock
                /\ history'[p].allocated = 0
          /\ (/\ pc[p] = "allocated"
              /\ pc'[p] = "committed"
              /\ snapshot[p].custom_jofotara_id # EmptyId)
             => /\ company' = company
                /\ invoice' = invoice
      ]_vars

\* a retry after an Error got the stored identifiers back
C2_Witness ==
    \E p \in Procs :
        /\ pc[p] = "allocated"
        /\ invoice[target[p]].custom_jofotara_status = "Error"
        /\ snapshot[p].custom_jofotara_status = "Error"
        /\ snapshot[p].custom_jofotara_id # EmptyId
        /\ identifiers[p] = CarriedIdentifiers(p)
        /\ identifiers[p] = StoredIdentifiers(target[p])

\* C3: once an invoice's status is Success it is Success in every later
\* state, whatever a re-submission, another worker or a later step of the
\* same attempt does.
C3_SuccessIsTerminal ==
    [][\A i \in Invoices : Sent(i) = "Success" => Sent(i)' = "Success"]_vars

\* the call is the only one ever made for its invoice
FirstSubmission(p) ==
    /\ snapshot[p].custom_jofotara_status = ""
    /\ \A q \in Procs \ {p} : target[q] # target[p]

\* the call loaded an invoice whose status was Error
RetryOfError(p) == snapshot[p].custom_jofotara_status = "Error"

\* C4: when the synchronous phase enqueues the asynchronous task, on a first
\* submission and equally on a retry of an invoice whose status is Error,
\* the invoice's persisted status is Queued and its identifiers are
\* populated.
C4_QueuedAtEnqueue ==
    [][\A p \in Procs :
          (/\ pc[p] = "committed"
           /\ pc'[p] = "queued"
           /\ FirstSubmission(p) \/ RetryOfError(p))
             => /\ Sent(target[p]) = "Queued"
                /\ invoice[target[p]].custom_jofotara_id # EmptyId
                /\ invoice[target[p]].custom_jofotara_uuid # ""
                /\ invoice[target[p]].custom_jofotara_icv # 0
      ]_vars

\* C5: every asynchronous attempt that started and has ended left the
\* invoice's persisted status at Success or Error, never at Queued.
C5_AttemptEndsDecided ==
    [][\A p \in Procs :
          (InFlight(p) /\ Ended(p)')
             => Sent(target[p])' \in {"Success", "Error"}
      ]_vars

\* C6: at any time at most one asynchronous worker is in flight per invoice.
C6_OneWorkerPerInvoice ==
    \A p, q \in Procs :
        (p # q /\ InFlight(p) /\ InFlight(q)) => target[p] # target[q]

\* the conditions under which submitInvoice is to be rejected
MustReject(i) ==
    \/ ~company[invoice[i].company].custom_enable_jofotara
    \/ invoice[i].docstatus # 1
    \/ Sent(i) = "Success"
    \/ /\ invoice[i].is_return
       /\ \/ invoice[i].return_against \notin Invoices
          \/ Sent(invoice[i].return_against) # "Success"
          \/ invoice[invoice[i].return_against].custom_jofotara_uuid = ""

\* C7: a submitInvoice call that meets a rejection condition (integration
\* disabled, invoice not finalized, invoice already Success, return document
\* without a valid original) is rejected with the Counter State, the invoice,
\* the Submission Log all unchanged and no task enqueued, and the rejected
\* call does nothing afterwards.
C7_RejectionMutatesNothing ==
    [][\A p \in Procs :
          /\ \A i \in Invoices :
                (Calls(p, i) /\ MustReject(i))
                   => (pc'[p] = "rejected" /\ NothingMutated)
          /\ pc[p] = "rejected" => pc'[p] = "rejected"
      ]_vars

\* a call for an invoice that is already Success was rejected after the
\* counter had moved
C7_Witness ==
    \E p \in Procs :
        /\ pc[p] = "rejected"
        /\ Sent(target[p]) = "Success"
        /\ company[invoice[target[p]].company].custom_latest_sent_icv # 0

\* C8 as stated: a call for a company whose credentials are missing fails in
\* the synchronous phase, before any identifier is allocated.
C8_CredentialsCheckedSynchronously ==
    \A p \in Procs :
        (pc[p] # "idle" /\ CredentialsMissing(invoice[target[p]].company))
           => pc[p] = "rejected"

\* C8 amended: a call for a company whose integration is disabled is rejected
\* synchronously with nothing mutated; missing credentials are not looked at
\* by the synchronous phase but by the asynchronous attempt, which makes no
\* network call and persists Error, so that no invoice of such a company is
\* ever Success.
C8_ConfigurationErrors ==
    /\ [](\A i \in Invoices :
             CredentialsMissing(invoice[i].company) => Sent(i) # "Success")
    /\ [](\A p \in Procs :
             (pc[p] # "idle" /\ CredentialsMissing(invoice[target[p]].company))
                => ~history[p].posted)
    /\ [][\A p \in Procs :
             /\ \A i \in Invoices :
                   (Calls(p, i) /\ ~company[invoice[i].company].custom_enable_jofotara)
                      => (pc'[p] = "rejected" /\ NothingMutated)
             /\ (/\ pc[p] \in {"queued", "except"}
                 /\ pc'[p] \in {"notify", "notify_error"}
                 /\ CredentialsMissing(invoice[target[p]].company))
                => Sent(target[p])' = "Error"
         ]_vars

\* an invoice of a company without client id was given identifiers and its
\* attempt ended in Error
C8_Witness ==
    \E p \in Procs :
        /\ pc[p] = "done"
        /\ ~company[invoice[target[p]].company].custom_jofotara_client_id
        /\ company[invoice[target[p]].company].custom_jofotara_secret_key
        /\ history[p].allocated # 0
        /\ history[p].outcome = "transport_error"
        /\ Sent(target[p]) = "Error"

\* the error text for a list of compliance errors: the label, then the
\* messages in order, separated by newlines
ExpectedErrorText(text, errors) ==
    /\ Len(text) = IF Len(errors) = 0 THEN 1 ELSE 2 * Len(errors)
    /\ text[1] = "JoFotara Validation Error: "
    /\ \A k \in 1..Len(errors) :
          /\ text[2 * k] = (IF errors[k] = "missing" THEN "Unknown Error" ELSE errors[k])
          /\ k > 1 => text[2 * k - 1] = "\n"

\* C9: when the transport call returned HTTP 200 with an embedded business
\* result of status ERROR, the attempt records Error, never Success, and the
\* error text it logs is the concatenation of the compliance engine's
\* messages.
C9_BusinessErrorIsError ==
    [][\A p \in Procs :
          /\ (/\ pc[p] = "queued"
              /\ pc'[p] = "notify"
              /\ history'[p].outcome = "business_error")
             => /\ local'[p].result.success
                /\ Sent(target[p])' = "Error"
                /\ local'[p].submission_status = "Error"
                /\ company[invoice[target[p]].company].custom_jofotara_save_logs
                      => \E row \in logs' \ logs :
                            /\ row.attempt = p
                            /\ row.status = "Error"
                            /\ ExpectedErrorText(row.error_traceback,
                                                 local'[p].result.errors)
          /\ (/\ pc[p] # pc'[p]
              /\ history'[p].outcome = "business_error"
              /\ Sent(target[p])' # Sent(target[p]))
             => Sent(target[p])' = "Error"
      ]_vars

\* an attempt whose response carried two compliance errors logged both
C9_Witness ==
    \E p \in Procs :
        /\ pc[p] = "notify"
        /\ local[p].result.success
        /\ local[p].result.status = "ERROR"
        /\ Len(local[p].result.errors) = 2
        /\ Sent(target[p]) = "Error"
        /\ \E row \in logs :
              /\ row.attempt = p
              /\ row.error_traceback =
                    <<"JoFotara Validation Error: ", "EINV_MESSAGE", "\n", "EINV_MESSAGE">>

\* a later call for invoice i can be accepted
Retryable(i) ==
    /\ company[invoice[i].company].custom_enable_jofotara
    /\ invoice[i].docstatus = 1
    /\ ~invoice[i].is_return

\* C10: an attempt whose transport call failed persists Error and leaves the
\* invoice's identifiers as they were; a later submitInvoice for the invoice
\* in status Error is accepted and is handed the stored identifiers without a
\* write to the Counter State.
C10_TransportErrorRetryable ==
    [][\A p \in Procs :
          /\ (/\ pc[p] = "queued"
              /\ pc'[p] = "notify"
              /\ history'[p].outcome = "transport_error")
             => /\ Sent(target[p])' = "Error"
                /\ StoredIdentifiers(target[p])' = StoredIdentifiers(target[p])
          /\ \A i \in Invoices :
                (/\ Calls(p, i)
                 /\ Sent(i) = "Error"
                 /\ Retryable(i))
                   => /\ pc'[p] = "validated"
                      /\ CarriedIdentifiers(p)' = StoredIdentifiers(i)
          /\ (/\ pc[p] = "validated"
              /\ pc'[p] = "allocated"
              /\ snapshot[p].custom_jofotara_status = "Error"
              /\ snapshot[p].custom_jofotara_id # EmptyId)
             => /\ identifiers'[p] = CarriedIdentifiers(p)
                /\ company' = company
      ]_vars

\* an invoice whose first attempt failed in transport was retried and is
\* Success with the identifiers of the first attempt
C10_Witness ==
    \E p, q \in Procs :
        /\ p # q
        /\ target[p] = target[q]
        /\ pc[p] = "done"
        /\ history[p].outcome = "transport_error"
        /\ history[p].allocated # 0
        /\ pc[q] = "done"
        /\ history[q].allocated = 0
        /\ history[q].outcome = "accepted"
        /\ Sent(target[q]) = "Success"
        /\ invoice[target[q]].custom_jofotara_icv = history[p].allocated
        /\ invoice[target[q]].custom_jofotara_uuid = NewUuid(p)

\* the code an accepted response returned, the empty string when it returned
\* none
ReturnedQr(result) == IF result.qr = "QR" THEN "QR" ELSE ""

\* C11: when the transport call succeeded and the embedded business result
\* is not an explicit ERROR (PASS, WARNING, no status), the update the attempt
\* commits sets the invoice status to Success and, together with it, stores
\* the returned QR code, or the empty string when none was returned.
C11_AcceptedStoresQr ==
    [][\A p \in Procs :
          (/\ pc[p] = "queued"
           /\ pc'[p] = "notify"
           /\ local'[p].result.success
           /\ local'[p].result.status # "ERROR")
             => /\ Sent(target[p])' = "Success"
                /\ invoice'[target[p]].custom_jofotara_qr = ReturnedQr(local'[p].result)
                /\ local'[p].submission_status = "Success"
                /\ history'[p].outcome = "accepted"
      ]_vars

\* a response with a WARNING and no QR entry made the invoice Success with
\* an empty QR code
C11_Witness ==
    \E p \in Procs :
        /\ pc[p] = "notify"
        /\ local[p].result.success
        /\ local[p].result.status = "WARNING"
        /\ local[p].result.qr = "missing"
        /\ Sent(target[p]) = "Success"
        /\ invoice[target[p]].custom_jofotara_qr = ""

\* C12: whatever the interleaving, no two distinct invoices of one company
\* carry the same document id (abbr-date-sequence) and no two carry the same
\* audit counter, the business date never moving backwards; the same holds
\* for the identifiers handed to calls for distinct invoices.
C12_DistinctIdentifiers ==
    /\ \A i, j \in Invoices :
          (/\ i # j
           /\ invoice[i].company = invoice[j].company
           /\ invoice[i].custom_jofotara_id # EmptyId
           /\ invoice[j].custom_jofotara_id # EmptyId)
             => /\ invoice[i].custom_jofotara_id # invoice[j].custom_jofotara_id
                /\ invoice[i].custom_jofotara_icv # invoice[j].custom_jofotara_icv
    /\ \A p, q \in Procs :
          (/\ target[p] # target[q]
           /\ identifiers[p] # NoIdentifiers
           /\ identifiers[q] # NoIdentifiers)
             => /\ identifiers[p].jofotara_id # identifiers[q].jofotara_id
                /\ identifiers[p].jofotara_icv # identifiers[q].jofotara_icv

\* two invoices were given identifiers on different business dates, each
\* with the first daily sequence number of its date
C12_Witness ==
    \E i, j \in Invoices :
        /\ i # j
        /\ invoice[i].custom_jofotara_id = JofotaraId("CA", 1, 1)
        /\ invoice[j].custom_jofotara_id = JofotaraId("CA", 2, 1)
        /\ invoice[j].custom_jofotara_icv = invoice[i].custom_jofotara_icv + 1

\* the call p makes a fresh allocation in this step
FreshAllocation(p) ==
    /\ pc[p] = "validated"
    /\ pc'[p] = "allocated"
    /\ history'[p].allocated # 0

\* the call p commits its fresh allocation in this step
CommitsAllocation(p) ==
    /\ pc[p] = "allocated"
    /\ pc'[p] = "committed"
    /\ history[p].allocated # 0

\* C13: a fresh allocation makes last_daily_sequence_number 1 exactly when
\* the current business date differs from the stored
\* last_daily_sequence_date (no date stored yet included) and the stored
\* number plus 1 otherwise; in both cases last_daily_sequence_date becomes the
\* current business date; these are the values its commit stores.
C13_DailySequence ==
    [][\A p \in Procs :
          LET c == invoice[target[p]].company
          IN  /\ FreshAllocation(p)
                 => /\ txn'[p].company_written
                    /\ txn'[p].counters.custom_last_daily_seq_date = today
                    /\ company[c].custom_last_daily_seq_date # today
                          => txn'[p].counters.custom_last_daily_seq_no = 1
                    /\ company[c].custom_last_daily_seq_date = today
                          => /\ txn'[p].counters.custom_last_daily_seq_no =
                                   company[c].custom_last_daily_seq_no + 1
                             /\ txn'[p].counters.custom_last_daily_seq_no # 1
              /\ CommitsAllocation(p)
                 => /\ company'[c].custom_last_daily_seq_date =
                          txn[p].counters.custom_last_daily_seq_date
                    /\ company'[c].custom_last_daily_seq_no =
                          txn[p].counters.custom_last_daily_seq_no
      ]_vars

\* the second allocation of the company fell on the next business date and
\* restarted the daily sequence
C13_Witness ==
    \E c \in Companies :
        /\ company[c].custom_last_daily_seq_date = 2
        /\ company[c].custom_last_daily_seq_no = 1
        /\ company[c].custom_latest_sent_icv = company[c].custom_starter_icv + 2

\* C14: latest_counter never decreases, whatever allocations, retries and
\* changes of starter_counter happen: a fresh allocation takes
\* max(starter_counter, latest_counter) + 1, its commit stores that value as
\* latest_counter and stamps it on the invoice, and no other step changes
\* latest_counter.
C14_LatestCounterMonotone ==
    [][/\ \A c \in Companies :
             /\ company'[c].custom_latest_sent_icv >= company[c].custom_latest_sent_icv
             /\ company'[c].custom_latest_sent_icv # company[c].custom_latest_sent_icv
                   => \E p \in Procs :
                         /\ CommitsAllocation(p)
                         /\ invoice[target[p]].company = c
       /\ \A p \in Procs :
             LET c == invoice[target[p]].company
                 new_audit_counter ==
                     1 + (IF company[c].custom_starter_icv >= company[c].custom_latest_sent_icv
                          THEN company[c].custom_starter_icv
                          ELSE company[c].custom_latest_sent_icv)
             IN  /\ FreshAllocation(p)
                    => /\ history'[p].allocated = new_audit_counter
                       /\ txn'[p].counters.custom_latest_sent_icv = new_audit_counter
                       /\ txn'[p].vals.custom_jofotara_icv = new_audit_counter
                       /\ "custom_jofotara_icv" \in txn'[p].wrote
                       /\ identifiers'[p].jofotara_icv = new_audit_counter
                 /\ CommitsAllocation(p)
                    => /\ company'[c].custom_latest_sent_icv = history[p].allocated
                       /\ invoice'[target[p]].custom_jofotara_icv = history[p].allocated
                 /\ (pc[p] = "validated" /\ pc'[p] = "allocated" /\ ~FreshAllocation(p))
                    => /\ txn'[p] = EmptyTxn
                       /\ identifiers'[p].jofotara_icv = invoice[target[p]].custom_jofotara_icv
      ]_vars

\* after a first allocation the starter was raised above latest_counter, a
\* second allocation took starter + 1, and the starter was lowered again
C14_Witness ==
    \E c \in Companies, i, j \in Invoices :
        /\ invoice[i].custom_jofotara_icv = 1
        /\ invoice[j].custom_jofotara_icv = MaxNewStarter + 1
        /\ company[c].custom_latest_sent_icv = MaxNewStarter + 1
        /\ company[c].custom_starter_icv = 0

\* C15: the company counter lock is held only between the allocation and the
\* commit of send_to_jofotara: a call that has been enqueued or whose worker
\* is building the document, calling the network or finishing holds no
\* counter lock, and while it is in flight a fresh allocation of another call
\* for the same company can go ahead.
C15_NoLockAcrossNetwork ==
    /\ \A c \in Companies :
          lock[c] # None => pc[lock[c]] = "allocated"
    /\ \A p \in Procs :
          (InFlight(p) \/ pc[p] = "committed") => \A c \in Companies : lock[c] # p
    /\ \A p, q \in Procs :
          (/\ InFlight(p)
           /\ pc[q] = "validated"
           /\ invoice[target[q]].company = invoice[target[p]].company
           /\ ~HasIdentifiers(snapshot[q]))
             => ENABLED Allocate(q)

\* while one call waits for its network answer, another call for the same
\* company holds the counter lock of its own allocation
C15_Witness ==
    \E p, q \in Procs :
        /\ pc[p] = "queued"
        /\ pc[q] = "allocated"
        /\ invoice[target[q]].company = invoice[target[p]].company
        /\ lock[invoice[target[q]].company] = q
        /\ history[q].allocated = history[p].allocated + 1

\* the Counter State of a company row
CounterState(row) ==
    [custom_starter_icv |-> row.custom_starter_icv,
     custom_latest_sent_icv |-> row.custom_latest_sent_icv,
     custom_last_daily_seq_date |-> row.custom_last_daily_seq_date,
     custom_last_daily_seq_no |-> row.custom_last_daily_seq_no]

\* C16: allocations for different companies are independent: an allocation
\* for company A and its commit take their values from A's Counter State
\* alone, leave the row and the lock of every other company as they are, and
\* a fresh allocation whose own company row is not locked can go ahead
\* whatever lock is held for another company.
C16_CompaniesIndependent ==
    /\ [](\A q \in Procs :
             (/\ pc[q] = "validated"
              /\ ~HasIdentifiers(snapshot[q])
              /\ lock[invoice[target[q]].company] = None)
                => ENABLED Allocate(q))
    /\ [][\A p \in Procs :
             LET a == invoice[target[p]].company
             IN  /\ (FreshAllocation(p) \/ CommitsAllocation(p))
                    => \A c \in DOMAIN company \ {a} :
                          /\ company'[c] = company[c]
                          /\ lock'[c] = lock[c]
                 /\ FreshAllocation(p)
                    => /\ history'[p].allocated =
                             1 + (IF company[a].custom_starter_icv
                                        >= company[a].custom_latest_sent_icv
                                  THEN company[a].custom_starter_icv
                                  ELSE company[a].custom_latest_sent_icv)
                       /\ txn'[p].counters.custom_last_daily_seq_no =
                             (IF company[a].custom_last_daily_seq_date = today
                              THEN company[a].custom_last_daily_seq_no + 1 ELSE 1)
                       /\ identifiers'[p].jofotara_id[1] = company[a].abbr
                       /\ lock'[a] = p
                 /\ CommitsAllocation(p)
                    => /\ company'[a].custom_latest_sent_icv = history[p].allocated
                       /\ company'[a].custom_starter_icv = company[a].custom_starter_icv
         ]_vars

\* both companies' rows are locked at once, each by the allocation of one of
\* its own invoices, and each allocation took its own company's counter
C16_Witness ==
    \E p, q \in Procs :
        /\ lock["CoA"] = p
        /\ lock["CoB"] = q
        /\ pc[p] = "allocated"
        /\ pc[q] = "allocated"
        /\ history[p].allocated = company["CoA"].custom_starter_icv + 1
        /\ history[q].allocated = company["CoB"].custom_starter_icv + 1
        /\ CounterState(company["CoA"]) # CounterState(company["CoB"])

\* the Submission Log entries an attempt appended
LogRowsOf(p) == {row \in logs : row.attempt = p}

\* C17: an asynchronous attempt that has completed appended exactly one
\* Submission Log entry if the company keeps logs and none if it does not;
\* an entry carries the invoice status persisted together with it; no step
\* changes or removes an entry.
C17_OneLogPerAttempt ==
    /\ [](\A p \in Procs :
             pc[p] = "done"
                => Cardinality(LogRowsOf(p)) =
                      (IF company[invoice[target[p]].company].custom_jofotara_save_logs
                       THEN 1 ELSE 0))
    /\ [][/\ logs \subseteq logs'
           /\ \A row \in logs' \ logs :
                 row.status = invoice'[row.invoice].custom_jofotara_status
         ]_vars

\* C18: every asynchronous attempt that ends, normally or through the
\* except clause, has notified the originating user, and the status in the
\* notification is the invoice status the attempt persisted.
C18_AttemptNotifies ==
    [][\A p \in Procs :
          (InFlight(p) /\ Ended(p)')
             => \E n \in notifications' :
                   /\ n.attempt = p
                   /\ n.invoice_name = target[p]
                   /\ (\A q \in Procs \ {p} : target[q] # target[p])
                         => n.status = Sent(target[p])'
      ]_vars

\* the sale is effectively on credit or of high value
TaxIdRequired(i) ==
    \/ invoice[i].custom_jofotara_payment_type = "Credit"
    \/ invoice[i].custom_jofotara_payment_type = "Auto" /\ ~invoice[i].is_pos
    \/ invoice[i].grand_total > HighValueThreshold
    \/ invoice[i].grand_total < -HighValueThreshold

MissingTaxId(i) == ~customer[invoice[i].customer].tax_id

\* C19: in the asynchronous phase, an invoice that is effectively Credit
\* (Credit, or Auto on a non-POS sale) or whose absolute grand total is
\* strictly above 10,000, and whose buyer has no tax id, makes the attempt
\* leave the try block before any document is built or network call made,
\* and the except clause persists Error; when neither condition holds, an
\* attempt for a buyer without tax id can still be sent and accepted.
C19_TaxIdRequired ==
    /\ [](\A p \in Procs :
             (/\ pc[p] = "queued"
              /\ ~TaxIdRequired(target[p])
              /\ MissingTaxId(target[p])
              /\ ~invoice[target[p]].is_return)
                => ENABLED (WorkerRun(p) /\ history'[p].outcome = "accepted"))
    /\ [](\A p \in Procs :
             (/\ InFlight(p) \/ Ended(p)
              /\ TaxIdRequired(target[p])
              /\ MissingTaxId(target[p]))
                => /\ ~history[p].posted
                   /\ ~local[p].xml_content
                   /\ Sent(target[p]) # "Success")
    /\ [][\A p \in Procs :
             (/\ pc[p] # "idle"
              /\ TaxIdRequired(target[p])
              /\ MissingTaxId(target[p]))
                => /\ (pc[p] = "queued" /\ pc'[p] # "queued")
                         => (/\ pc'[p] = "except"
                             /\ history'[p].outcome = "no_call"
                             /\ invoice' = invoice)
                   /\ (pc[p] = "except" /\ pc'[p] = "notify_error")
                         => Sent(target[p])' = "Error"
         ]_vars

\* a cash POS return of 10,001 to a buyer without tax id ended in Error
\* without a call
C19_Witness ==
    \E p \in Procs :
        /\ pc[p] = "done"
        /\ invoice[target[p]].is_return
        /\ invoice[target[p]].custom_jofotara_payment_type = "Cash"
        /\ invoice[target[p]].is_pos
        /\ invoice[target[p]].grand_total = -(HighValueThreshold + 1)
        /\ MissingTaxId(target[p])
        /\ history[p].outcome = "no_call"
        /\ ~history[p].posted
        /\ Sent(target[p]) = "Error"

\* invoice i is a return whose original exists and has no stored UUID
OriginalLacksUuid(i) ==
    /\ invoice[i].is_return
    /\ invoice[i].return_against \in Invoices
    /\ invoice[invoice[i].return_against].custom_jofotara_uuid = ""

\* C20: a return whose original has no stored UUID never gets a document
\* built or a network call made: submitInvoice for it is rejected with
\* nothing mutated, and an attempt that finds the UUID missing in the
\* asynchronous phase, the original having lost it after the synchronous
\* validation, leaves the try block by an exception without a document and
\* without a call.
C20_ReturnNeedsOriginalUuid ==
    [][\A p \in Procs :
          /\ \A i \in Invoices :
                (Calls(p, i) /\ OriginalLacksUuid(i))
                   => (pc'[p] = "rejected" /\ NothingMutated)
          /\ (/\ pc[p] = "queued"
              /\ pc'[p] # "queued"
              /\ OriginalLacksUuid(target[p]))
                => /\ pc'[p] = "except"
                   /\ ~local'[p].xml_content
                   /\ ~history'[p].posted
                   /\ history'[p].outcome = "no_call"
                   /\ invoice' = invoice
      ]_vars

\* a return was accepted and given identifiers, its original then lost its
\* UUID, and the attempt raised without a document and without a call
C20_Witness ==
    \E p \in Procs :
        /\ pc[p] = "except"
        /\ OriginalLacksUuid(target[p])
        /\ Sent(invoice[target[p]].return_against) = "Success"
        /\ history[p].allocated # 0
        /\ history[p].outcome = "no_call"
        /\ ~history[p].posted
        /\ ~local[p].xml_content

\* the original of return i exists, is Success and has a UUID
OriginalSent(i) ==
    /\ invoice[i].return_against \in Invoices
    /\ Sent(invoice[i].return_against) = "Success"
    /\ invoice[invoice[i].return_against].custom_jofotara_uuid # ""

\* C21: submitInvoice for a return is accepted only if the original it refers
\* to exists, is Success and has a document UUID; in every other case (no
\* reference, original missing, original not Success, UUID empty) the call is
\* rejected synchronously with nothing mutated, the rejected call does
\* nothing afterwards, and a return without an existing original never has
\* identifiers.
C21_ReturnAcceptance ==
    /\ [](\A i \in Returns :
             invoice[i].return_against \notin Invoices
                => StoredIdentifiers(i) = NoIdentifiers)
    /\ [][\A p \in Procs :
             /\ \A i \in Returns :
                   Calls(p, i)
                      => /\ pc'[p] = "validated" => OriginalSent(i)
                         /\ ~OriginalSent(i)
                               => /\ pc'[p] = "rejected"
                                  /\ NothingMutated
                                  /\ identifiers'[p] = NoIdentifiers
             /\ pc[p] = "rejected" => pc'[p] = "rejected"
         ]_vars

\* a return was rejected while its original, holding a UUID, was in Error
C21_Witness ==
    \E p \in Procs :
        /\ pc[p] = "rejected"
        /\ target[p] \in Returns
        /\ invoice[target[p]].return_against \in Invoices
        /\ Sent(invoice[target[p]].return_against) = "Error"
        /\ invoice[invoice[target[p]].return_against].custom_jofotara_uuid # ""
        /\ StoredIdentifiers(target[p]) = NoIdentifiers

\* the request p to cancel invoice i is made in this step
CancelCall(p, i) ==
    /\ pc[p] = "idle"
    /\ pc'[p] \in {"cancel_rejected", "cancelled"}
    /\ target'[p] = i

\* C22: a cancellation of an invoice whose status is Success is rejected and
\* leaves the invoice as it is; for every other status (empty, Queued, Error)
\* the hook does not block and the invoice becomes cancelled; an invoice that
\* is Success is never taken from submitted to cancelled.
C22_CancelBlockedOnSuccess ==
    [][/\ \A p \in Procs, i \in Invoices :
             CancelCall(p, i)
                => /\ Sent(i) = "Success"
                         => /\ pc'[p] = "cancel_rejected"
                            /\ invoice' = invoice
                   /\ Sent(i) # "Success"
                         => /\ pc'[p] = "cancelled"
                            /\ invoice'[i].docstatus = 2
                            /\ Sent(i)' = Sent(i)
       /\ \A i \in Invoices :
             (Sent(i) = "Success" /\ invoice[i].docstatus = 1)
                => invoice'[i].docstatus = 1
      ]_vars

\* the cancellation of an invoice that reached Success was rejected
C22_Witness ==
    \E p \in Procs :
        /\ pc[p] = "cancel_rejected"
        /\ Sent(target[p]) = "Success"
        /\ invoice[target[p]].docstatus = 1
        /\ invoice[target[p]].custom_jofotara_uuid # ""

\* the company of the invoice the call p is for has no row
CompanyMissing(p) == invoice[target[p]].company \notin DOMAIN company

\* generate_identifiers returns or throws in this step
IssuerEnds(p) == pc[p] = "validated" /\ pc'[p] # "validated"

\* the call wrote nothing and was handed nothing
NothingAllocated(p) ==
    /\ company' = company
    /\ invoice' = invoice
    /\ lock' = lock
    /\ txn'[p] = EmptyTxn
    /\ history'[p].allocated = 0

\* C23 as stated: whenever the company record does not exist,
\* generate_identifiers fails with the not-found error and allocates nothing.
C23_CompanyNotFoundFails ==
    [][\A p \in Procs :
          (IssuerEnds(p) /\ CompanyMissing(p))
             => /\ pc'[p] = "failed"
                /\ history'[p].outcome = "Company not found"
                /\ identifiers'[p] = NoIdentifiers
                /\ NothingAllocated(p)
      ]_vars

\* C23 amended: when the company record does not exist, generate_identifiers
\* writes no Counter State and leaves the invoice as it is; for an invoice
\* without a document id it fails with the not-found error, for an invoice
\* that carries a document id it does not fail but returns the stored triple.
C23_FreshAllocationNeedsCompany ==
    [][\A p \in Procs :
          (IssuerEnds(p) /\ CompanyMissing(p))
             => /\ NothingAllocated(p)
                /\ snapshot[p].custom_jofotara_id = EmptyId
                      => /\ pc'[p] = "failed"
                         /\ history'[p].outcome = "Company not found"
                         /\ identifiers'[p] = NoIdentifiers
                /\ snapshot[p].custom_jofotara_id # EmptyId
                      => /\ pc'[p] = "allocated"
                         /\ identifiers'[p] = CarriedIdentifiers(p)
      ]_vars

\* a call for an invoice without identifiers failed on the missing company
\* after another call had allocated for the existing company
C23_Witness ==
    \E p, q \in Procs :
        /\ pc[p] = "failed"
        /\ CompanyMissing(p)
        /\ StoredIdentifiers(target[p]) = NoIdentifiers
        /\ Sent(target[p]) = ""
        /\ pc[q] = "committed"
        /\ history[q].allocated = 1

\* send_invoice has been called by p
SentBy(p) == pc[p] = "sent"

\* the call made a POST that was answered with a status code
Answered(p) ==
    /\ SentBy(p)
    /\ ~CredentialsMissingIn(local[p].call.client_id, local[p].call.secret_key)
    /\ local[p].call.outcome.kind = "response"

\* the call made a POST that ended in an exception of the transport
TransportFailed(p) ==
    /\ SentBy(p)
    /\ ~CredentialsMissingIn(local[p].call.client_id, local[p].call.secret_key)
    /\ local[p].call.outcome.kind # "response"

\* C24: send_invoice returns success=true exactly for HTTP status 200, and
\* success=false with an error message for every other status; a timeout, a
\* connection failure and any other transport failure return success=false;
\* a call makes at most one POST.
C24_TransportResult ==
    \A p \in Procs :
        /\ SentBy(p) => local[p].result.posts <= 1
        /\ Answered(p) =>
              /\ local[p].result.ends = "returned"
              /\ local[p].result.success
                    <=> (local[p].call.outcome.status_code = HttpOk)
              /\ ~local[p].result.success => local[p].result.error # ""
        /\ TransportFailed(p) =>
              /\ local[p].result.ends = "returned"
              /\ ~local[p].result.success

\* C25: with an empty client id or secret key send_invoice returns
\* success=false at once, without a POST.
C25_NoCredentialsNoPost ==
    \A p \in Procs :
        (/\ SentBy(p)
         /\ \/ Falsy(local[p].call.client_id)
            \/ Falsy(local[p].call.secret_key))
           => /\ local[p].result.ends = "returned"
              /\ ~local[p].result.success
              /\ local[p].result.posts = 0

\* one call without a secret key and one with both credentials have returned
C25_Witness ==
    \E p, q \in Procs :
        /\ SentBy(p) /\ SentBy(q)
        /\ local[p].call.client_id = "key"
        /\ local[p].call.secret_key = ""
        /\ local[p].result.posts = 0
        /\ local[q].result.posts = 1

\* the buyer of the invoice p's generator was built from is abroad: the
\* invoice names an address and the address names a country other than the
\* home country
Foreign(p) ==
    /\ local[p].inv.customer_address
    /\ local[p].inv.country \notin {"", "Jordan"}

\* C26: the type name has three digits: the first is 1 for a customer
\* abroad and 0 otherwise; the second is 2 for Credit, 1 for Cash, and for
\* Auto 1 on a point-of-sale invoice and 2 otherwise; the third is 2 for a
\* VAT-registered company and 1 otherwise; a domestic, Auto, non-POS invoice
\* of a VAT-registered company gets 022.
C26_InvoiceTypeName ==
    \A p \in Procs :
        pc[p] = "named" =>
           LET name == local[p].invoice_type_name
               inv == local[p].inv
           IN  /\ Len(name) = 3
               /\ name[1] = (IF Foreign(p) THEN "1" ELSE "0")
               /\ inv.custom_jofotara_payment_type = "Credit" => name[2] = "2"
               /\ inv.custom_jofotara_payment_type = "Cash" => name[2] = "1"
               /\ inv.custom_jofotara_payment_type = "Auto"
                     => name[2] = (IF inv.is_pos THEN "1" ELSE "2")
               /\ name[3] = (IF local[p].comp.custom_jofotara_vat_registered
                             THEN "2" ELSE "1")
               /\ (/\ ~Foreign(p)
                   /\ inv.custom_jofotara_payment_type = "Auto"
                   /\ ~inv.is_pos
                   /\ local[p].comp.custom_jofotara_vat_registered)
                     => name = <<"0", "2", "2">>

\* the example of the claim and an Auto point-of-sale export have been named
C26_Witness ==
    \E p, q \in Procs :
        /\ pc[p] = "named" /\ pc[q] = "named"
        /\ local[p].invoice_type_name = <<"0", "2", "2">>
        /\ local[p].inv.custom_jofotara_payment_type = "Auto"
        /\ local[q].inv.custom_jofotara_payment_type = "Auto"
        /\ local[q].inv.is_pos
        /\ local[q].invoice_type_name = <<"1", "1", "1">>

\* the generator has processed its line
Processed == pc[Generator] = "processed"

\* some row of the list has a rate other than zero
SomeRate(rows) == \E k \in 1..Len(rows) : rows[k] # Zero

\* the rate of the processed line is above zero: by the item's template
\* when it names one, by the invoice's taxes otherwise
EffectiveRatePositive ==
    LET input == local[Generator].input
    IN  IF input.item.item_tax_template
        THEN SomeRate(input.item.template_taxes)
        ELSE SomeRate(input.taxes)

\* the buyer of the processed line is abroad
ForeignBuyer ==
    LET input == local[Generator].input
    IN  input.customer_address /\ input.country \notin {"", "Jordan"}

\* C27: the tax category of a line is S when its effective rate is above
\* zero, Z when the rate is zero and the buyer domestic, O when the rate is
\* zero and the buyer abroad; the effective rate is the rate of the item's
\* tax template when the item has one, the sum of the invoice's tax rates
\* otherwise.
C27_TaxCategory ==
    Processed =>
       LET input == local[Generator].input
           line == local[Generator].line
       IN  /\ line.tax_percent =
                 (IF input.item.item_tax_template
                  THEN SumRates(input.item.template_taxes)
                  ELSE SumRates(input.taxes))
           /\ line.tax_category =
                 (IF EffectiveRatePositive THEN "S"
                  ELSE IF ForeignBuyer THEN "O" ELSE "Z")

\* a line whose item has a zero-rate template on an invoice with a 16 %
\* tax, sold abroad, has been processed
C27_Witness ==
    /\ Processed
    /\ local[Generator].input.item.item_tax_template
    /\ local[Generator].input.item.template_taxes = <<Zero>>
    /\ local[Generator].input.taxes = <<Num(1, 16, 0)>>
    /\ ForeignBuyer
    /\ local[Generator].line.tax_category = "O"

\* q is num / den rounded half-up to a whole number
IsHalfUp(q, num, den) ==
    /\ Leq(Mul(Mul(q, den), <<2>>), Add(Mul(num, <<2>>), den))
    /\ ~Leq(Add(Mul(Mul(q, den), <<2>>), den), Mul(num, <<2>>))

\* C28: for a line, at nine fraction digits and rounding half-up: the net
\* unit price is |amount| / |qty|, and zero for a zero quantity; the line
\* extension is |qty| times the net unit price; the tax is the line
\* extension times rate / 100; the rounding amount is line extension plus
\* tax. Quantity 2, amount 20 and rate 16 give 20.000000000, 3.200000000
\* and 23.200000000.
C28_LineAmounts ==
    Processed =>
       LET input == local[Generator].input
           line == local[Generator].line
           qty == ToDecimal(AbsNum(input.item.qty))
           amount == ToDecimal(AbsNum(input.item.amount))
           one == Pow10(FractionDigits)
       IN  /\ IF input.item.qty.units = 0 /\ input.item.qty.nanos = 0
              THEN line.unit_price_dec = <<>>
              ELSE IsHalfUp(line.unit_price_dec, Mul(amount, one), qty)
           /\ IsHalfUp(line.line_extension_dec,
                       Mul(qty, line.unit_price_dec), one)
           /\ IsHalfUp(line.tax_amount_dec,
                       Mul(line.line_extension_dec, line.tax_percent),
                       Mul(FromNat(Hundred), one))
           /\ line.rounding_amount_dec
                 = Add(line.line_extension_dec, line.tax_amount_dec)
           /\ line.unit_price = FormatAmount(line.unit_price_dec)
           /\ line.line_extension = FormatAmount(line.line_extension_dec)
           /\ line.tax_amount = FormatAmount(line.tax_amount_dec)
           /\ line.rounding_amount = FormatAmount(line.rounding_amount_dec)
           /\ (/\ input.item.qty = Num(1, 2, 0)
               /\ input.item.amount = Num(1, 20, 0)
               /\ line.tax_percent = ToDecimal(Num(1, 16, 0)))
                 => /\ line.line_extension
                         = <<2, 0, ".", 0, 0, 0, 0, 0, 0, 0, 0, 0>>
                    /\ line.tax_amount
                         = <<3, ".", 2, 0, 0, 0, 0, 0, 0, 0, 0>>
                    /\ line.rounding_amount
                         = <<2, 3, ".", 2, 0, 0, 0, 0, 0, 0, 0, 0>>

\* a line of quantity 3 and amount 20 at 16 % has been processed: its unit
\* price is rounded up
C28_Witness ==
    /\ Processed
    /\ local[Generator].input.item.qty = Num(1, 3, 0)
    /\ local[Generator].input.item.amount = Num(1, 20, 0)
    /\ local[Generator].line.tax_percent = ToDecimal(Num(1, 16, 0))
    /\ local[Generator].line.unit_price
          = <<6, ".", 6, 6, 6, 6, 6, 6, 6, 6, 7>>
    /\ local[Generator].line.line_extension
          = <<2, 0, ".", 0, 0, 0, 0, 0, 0, 0, 0, 1>>

\* the generator has worked out its totals
Totalled == pc[Generator] = "totalled"

\* the sum of a field over the first k cached items
RECURSIVE LineSum(_, _)
LineSum(k, field) ==
    IF k = 0 THEN <<>>
    ELSE Add(LineSum(k - 1, field), local[Generator].cached_items[k][field])

\* the invoice-level allowance of the generator's invoice, without its sign
AllowanceOf ==
    LET d == local[Generator].invoice.discount_amount
    IN  IF d.is_none THEN <<>> ELSE ToDecimal(Num(1, d.number.units, d.number.nanos))

\* C29: the totals are taken from the lines: tax-exclusive is the sum of
\* the line extensions, total tax the sum of the line taxes, tax-inclusive
\* the sum of the two, and payable is tax-inclusive less the invoice-level
\* allowance without its sign, and zero where that would be negative.
C29_Totals ==
    Totalled =>
       LET totals == local[Generator].totals
           n == Len(local[Generator].cached_items)
           exclusive == LineSum(n, "line_extension_dec")
           tax == LineSum(n, "tax_amount_dec")
           inclusive == Add(exclusive, tax)
       IN  /\ totals.tax_exclusive = FormatAmount(exclusive)
           /\ totals.total_tax = FormatAmount(tax)
           /\ totals.tax_inclusive = FormatAmount(inclusive)
           /\ totals.payable =
                 (IF Leq(AllowanceOf, inclusive)
                  THEN FormatAmount(Sub(inclusive, AllowanceOf))
                  ELSE <<0, ".", 0, 0, 0, 0, 0, 0, 0, 0, 0>>)

\* an invoice of two lines with a negative allowance below its totals has
\* been totalled
C29_Witness ==
    /\ Totalled
    /\ Len(local[Generator].cached_items) = 2
    /\ local[Generator].invoice.taxes = <<Num(1, 16, 0)>>
    /\ local[Generator].invoice.discount_amount.number = Num(-1, 5, 0)
    /\ local[Generator].totals.tax_inclusive
          = <<4, 6, ".", 4, 0, 0, 0, 0, 0, 0, 0, 1>>
    /\ local[Generator].totals.payable
          = <<4, 1, ".", 4, 0, 0, 0, 0, 0, 0, 0, 1>>

\* between a ">" at i and a "<" at j of the text there is whitespace only,
\* and some
GapBetweenTags(text, i, j) ==
    /\ i + 1 < j
    /\ text[i] = ">"
    /\ text[j] = "<"
    /\ \A k \in (i + 1)..(j - 1) : text[k] \in Whitespace

\* C30: _minify_xml applied to its own result returns it unchanged, for
\* every text; and its result holds no newline, no carriage return and no
\* tab, and no whitespace between a ">" and the "<" after it.
C30_MinifyIdempotent ==
    /\ pc[Generator] \in {"minified", "minified_twice"} =>
          LET out == local[Generator].xml_content
          IN  /\ \A k \in 1..Len(out) : out[k] \notin {"\n", "\r", "\t"}
              /\ \A i, j \in 1..Len(out) : ~GapBetweenTags(out, i, j)
    /\ pc[Generator] = "minified_twice" =>
          local[Generator].again = local[Generator].xml_content

\* a text with a line break and a tab between two tags has been minified
\* twice
C30_Witness ==
    /\ pc[Generator] = "minified_twice"
    /\ local[Generator].xml_string = <<">", "\n", "\t", "<">>
    /\ local[Generator].xml_content = <<">", "<">>

\* C31: once an invoice's document id, UUID and counter value are stored,
\* no later step of any call or worker changes any of the three, and no
\* two calls are handed a counter value for the same invoice.
C31_IdentifiersWrittenOnce ==
    /\ [](\A p, q \in Procs :
             (/\ p # q
              /\ history[p].allocated # 0
              /\ history[q].allocated # 0)
                => target[p] # target[q])
    /\ [][\A i \in Invoices :
             StoredIdentifiers(i) # NoIdentifiers
                => StoredIdentifiers(i)' = StoredIdentifiers(i)]_vars

\* some attempt for invoice i made a POST that was answered with HTTP 200
\* and a result other than ERROR
AcceptedCall(i) ==
    \E p \in Procs :
        /\ target[p] = i
        /\ history[p].posted
        /\ history[p].outcome = "accepted"

\* C32: an invoice has status Success only if a transport call for it came
\* back with HTTP 200 and a business result other than ERROR; the step that
\* makes an invoice Success is the commit of an attempt that made such a
\* call, never one of an attempt without a network call; and an invoice
\* whose status is Queued, Success or Error has a document id, a UUID and a
\* counter value.
C32_SuccessNeedsAcceptedCall ==
    /\ [](\A i \in Invoices :
             /\ Sent(i) = "Success" => AcceptedCall(i)
             /\ Sent(i) \in {"Queued", "Success", "Error"}
                   => /\ invoice[i].custom_jofotara_id # EmptyId
                      /\ invoice[i].custom_jofotara_uuid # ""
                      /\ invoice[i].custom_jofotara_icv # 0)
    /\ [][\A i \in Invoices :
             (Sent(i) # "Success" /\ Sent(i)' = "Success")
                => \E p \in Procs :
                      /\ target[p] = i
                      /\ pc[p] = "queued"
                      /\ pc'[p] = "notify"
                      /\ history'[p].posted
                      /\ history'[p].outcome = "accepted"
                      /\ local'[p].result.success
                      /\ local'[p].result.status # "ERROR"]_vars

\* one invoice is Success after an accepted call, another is Error after an
\* attempt that made no network call, and both carry identifiers
C32_Witness ==
    \E p, q \in Procs :
        /\ target[p] # None /\ target[q] # None
        /\ target[p] # target[q]
        /\ Ended(p) /\ Ended(q)
        /\ Sent(target[p]) = "Success"
        /\ history[p].posted
        /\ history[p].outcome = "accepted"
        /\ Sent(target[q]) = "Error"
        /\ ~history[q].posted
        /\ StoredIdentifiers(target[q]) # NoIdentifiers

====
